---------------------------- MODULE Spec2Model ----------------------------
(***************************************************************************)
(* A model of scpi_virtual: the SCPI command tree of SCPI_receiver         *)
(* (registration, header resolution, message processing) and the           *)
(* multi-client Server / Experiment threads that feed it.                  *)
(*                                                                         *)
(* Text is modelled as sequences of one-character strings, so that the     *)
(* string operations of the source (split, upper, slicing, indexing) are   *)
(* computed and not assumed.                                               *)
(***************************************************************************)
EXTENDS Integers, Sequences, FiniteSets, TLC

(***************************************************************************)
(* Bounds of the model.                                                    *)
(***************************************************************************)
\* number of add_command calls made after construction
MaxRegs == 1
\* number of lines a client sends to the receiver
MaxLines == 1

(***************************************************************************)
(* Text helpers: str.upper, str.split, slicing, re.match('[A-Z_0-9]+').    *)
(***************************************************************************)
LowerChars == <<"a","b","c","d","e","f","g","h","i","j","k","l","m",
                "n","o","p","q","r","s","t","u","v","w","x","y","z">>
UpperChars == <<"A","B","C","D","E","F","G","H","I","J","K","L","M",
                "N","O","P","Q","R","S","T","U","V","W","X","Y","Z">>
DigitChars == {"0","1","2","3","4","5","6","7","8","9"}

UpperChar(c) ==
    IF \E i \in 1..Len(LowerChars) : LowerChars[i] = c
    THEN UpperChars[CHOOSE i \in 1..Len(LowerChars) : LowerChars[i] = c]
    ELSE c

\* str.upper()
Upper(s) == [i \in 1..Len(s) |-> UpperChar(s[i])]

\* s[:n]
Prefix(s, n) == SubSeq(s, 1, IF n < Len(s) THEN n ELSE Len(s))

\* s[:-1] of a list
Front(s) == SubSeq(s, 1, Len(s) - 1)

\* position of the first sep at or after i, or Len(s)+1
RECURSIVE FindSep(_, _, _)
FindSep(s, sep, i) ==
    IF i > Len(s) THEN Len(s) + 1
    ELSE IF s[i] = sep THEN i
    ELSE FindSep(s, sep, i + 1)

\* str.split(sep): always at least one piece, pieces may be empty
RECURSIVE SplitFrom(_, _, _)
SplitFrom(s, sep, i) ==
    LET j == FindSep(s, sep, i)
    IN  IF j > Len(s) THEN << SubSeq(s, i, Len(s)) >>
        ELSE << SubSeq(s, i, j - 1) >> \o SplitFrom(s, sep, j + 1)

Split(s, sep) == SplitFrom(s, sep, 1)

\* the characters matched by the class [A-Z_0-9]
CapsClass == {UpperChars[i] : i \in 1..Len(UpperChars)} \cup DigitChars \cup {"_"}

\* re.match('[A-Z_0-9]+', tkn).group(0); the empty text when there is no match
RECURSIVE CapsRun(_, _)
CapsRun(s, i) ==
    IF i <= Len(s) /\ s[i] \in CapsClass THEN CapsRun(s, i + 1) ELSE i - 1

MatchCaps(tkn) == SubSeq(tkn, 1, CapsRun(tkn, 1))

(***************************************************************************)
(* The command tree (SCPI_receiver.commands).  A Python dict object is a   *)
(* node; a node is named by the path of long mnemonics under which it was  *)
(* created (dct[long_tkn] = {}), the root by the empty path.  `keys` maps  *)
(* each key of the dict to the node it refers to, so that two keys that    *)
(* refer to one dict object (dct[short_tkn] = dct[long_tkn]) map to one    *)
(* name.  `leaf` is the entry under the key None.                          *)
(***************************************************************************)
Root == << >>
NoKeys == [k \in {} |-> Root]
\* the key None is absent
Absent == [kind |-> "absent", name |-> << >>]
\* short_tkn = None
NoShort == << >>

EmptyTree == (Root :> [keys |-> NoKeys, leaf |-> Absent])

HasKey(T, dct, k) == k \in DOMAIN T[dct].keys

\* dct[long_tkn] = {}
NewChild(T, dct, long) ==
    LET child == Append(dct, long)
    IN  [n \in (DOMAIN T) \cup {child} |->
            IF n = child THEN [keys |-> NoKeys, leaf |-> Absent]
            ELSE IF n = dct THEN [T[n] EXCEPT !.keys = (long :> child) @@ @]
            ELSE T[n]]

\* dct[short_tkn] = dct[long_tkn]
Alias(T, dct, short, long) ==
    [T EXCEPT ![dct].keys = (short :> T[dct].keys[long]) @@ @]

\* dct[None] = handler
SetLeaf(T, dct, handler) == [T EXCEPT ![dct].leaf = handler]

\* the short mnemonic add_command derives from one token of the pattern
ShortToken(tkn, ignore_case) ==
    LET long_tkn == Upper(tkn)
    IN  IF ignore_case
        THEN IF Len(tkn) > 3 /\ tkn[4] \in {"A","E","I","O","U","Y"}
             THEN Prefix(long_tkn, 3)
             ELSE IF Len(tkn) > 4 THEN Prefix(long_tkn, 4) ELSE NoShort
        ELSE IF long_tkn # tkn THEN MatchCaps(tkn) ELSE NoShort

\* ignore_case = False and the token has lower case but no leading capitals
BadCase(tkn, ignore_case) ==
    /\ ~ignore_case
    /\ Upper(tkn) # tkn
    /\ MatchCaps(tkn) = << >>

(***************************************************************************)
(* SCPI_receiver.add_command.  The result is the tree as the call leaves   *)
(* it and whether the call raised; a call that raises keeps the changes    *)
(* it made before the raise.  `steps` and `clash` observe the call for     *)
(* the properties below: the (dict, long, short) triples the call walked   *)
(* without raising, and whether a derived short mnemonic met a key that    *)
(* refers to another node than its long mnemonic.                          *)
(***************************************************************************)
Walked(dct, long, short) == [dct |-> dct, long |-> long, short |-> short]

\* the key short_tkn exists in dct and is not an alias of long_tkn
ShortClash(T, dct, long, short) ==
    /\ short # NoShort
    /\ HasKey(T, dct, short)
    /\ (~HasKey(T, dct, long) \/ T[dct].keys[short] # T[dct].keys[long])

\* for dct in locations: ... (lines 72-82), from the i-th location on
RECURSIVE AddAtLocations(_, _, _, _, _, _, _)
AddAtLocations(R, locations, i, long, short, optional, next_locations) ==
    IF i > Len(locations)
    THEN [R EXCEPT !.locations = next_locations]
    ELSE
      LET dct   == locations[i]
          T     == R.tree
          clash == R.clash \/ ShortClash(T, dct, long, short)
          more  == IF optional THEN << dct >> ELSE << >>
      IN  IF ~HasKey(T, dct, long)
          THEN LET T1 == NewChild(T, dct, long)
               IN  IF short # NoShort /\ HasKey(T1, dct, short)
                   THEN [R EXCEPT !.tree = T1, !.err = TRUE, !.clash = clash]
                   ELSE AddAtLocations(
                          [R EXCEPT !.tree = IF short # NoShort
                                             THEN Alias(T1, dct, short, long)
                                             ELSE T1,
                                    !.clash = clash,
                                    !.steps = @ \cup {Walked(dct, long, short)}],
                          locations, i + 1, long, short, optional,
                          next_locations \o << T1[dct].keys[long] >> \o more)
          ELSE AddAtLocations(
                 [R EXCEPT !.clash = clash,
                           !.steps = @ \cup {Walked(dct, long, short)}],
                 locations, i + 1, long, short, optional,
                 next_locations \o << T[dct].keys[long] >> \o more)

\* for dct in locations: fill in the endpoint (lines 88-92)
RECURSIVE FillLeaves(_, _, _, _)
FillLeaves(R, locations, i, handler) ==
    IF i > Len(locations) THEN R
    ELSE IF R.tree[locations[i]].leaf # Absent
         THEN [R EXCEPT !.err = TRUE]
         ELSE FillLeaves([R EXCEPT !.tree = SetLeaf(@, locations[i], handler)],
                         locations, i + 1, handler)

\* for tkn in subcmds[1:]: ... (lines 46-85), from the i-th piece on
RECURSIVE AddTokens(_, _, _, _, _, _)
AddTokens(R, subcmds, i, optional, handler, ignore_case) ==
    IF i > Len(subcmds)
    THEN FillLeaves(R, R.locations, 1, handler)
    ELSE
      LET raw == subcmds[i]
      IN  IF Len(raw) = 0 THEN [R EXCEPT !.err = TRUE]
          ELSE
            LET next_optional == raw[Len(raw)] = "["
                skip == (IF optional THEN 1 ELSE 0) + (IF next_optional THEN 1 ELSE 0)
                tkn  == SubSeq(raw, 1, Len(raw) - skip)
            IN  IF Len(tkn) = 0 \/ BadCase(tkn, ignore_case)
                THEN [R EXCEPT !.err = TRUE]
                ELSE
                  LET R1 == AddAtLocations(R, R.locations, 1, Upper(tkn),
                                           ShortToken(tkn, ignore_case),
                                           optional, << >>)
                  IN  IF R1.err THEN R1
                      ELSE AddTokens(R1, subcmds, i + 1, next_optional,
                                     handler, ignore_case)

\* self.commands[subcmds[0]] = {None: handler}
SetCommon(T, key, handler) ==
    LET node == << key >>
    IN  [n \in (DOMAIN T) \cup {node} |->
            IF n = node THEN [keys |-> NoKeys, leaf |-> handler]
            ELSE IF n = Root THEN [T[n] EXCEPT !.keys = (key :> node) @@ @]
            ELSE T[n]]

AddCommand(T, cmd, handler, ignore_case) ==
    LET subcmds == Split(cmd, ":")
        R0 == [tree |-> T, err |-> FALSE, locations |-> << Root >>,
               steps |-> {}, clash |-> FALSE]
    IN  IF subcmds[1] = << "[" >>
        THEN AddTokens(R0, subcmds, 2, TRUE, handler, ignore_case)
        ELSE IF Len(subcmds[1]) > 0 /\ subcmds[1][1] = "*"
        THEN IF Len(subcmds) > 1 THEN [R0 EXCEPT !.err = TRUE]
             ELSE [R0 EXCEPT !.tree = SetCommon(T, subcmds[1], handler)]
        ELSE IF subcmds[1] # << >> THEN [R0 EXCEPT !.err = TRUE]
        ELSE AddTokens(R0, subcmds, 2, FALSE, handler, ignore_case)

(***************************************************************************)
(* SCPI_receiver.find.                                                     *)
(***************************************************************************)
\* find.resolve: the handler under the key None at the end of the path
RECURSIVE ResolveFrom(_, _, _, _)
ResolveFrom(T, dct, tokens, i) ==
    IF i > Len(tokens) THEN T[dct].leaf
    ELSE IF ~HasKey(T, dct, tokens[i]) THEN Absent
    ELSE ResolveFrom(T, T[dct].keys[tokens[i]], tokens, i + 1)

Resolve(T, tokens) == ResolveFrom(T, Root, tokens, 1)

Found(handler, parent) == [err |-> FALSE, handler |-> handler, parent |-> parent]
NotFound == [err |-> TRUE, handler |-> Absent, parent |-> << >>]

\* header starts with ':' (lines 113-117)
FindGlobalKeepParent(T, subcmds, parent) ==
    LET handler == Resolve(T, Tail(subcmds))
    IN  IF handler = Absent THEN NotFound
        ELSE Found(handler, parent)
FindGlobal(T, subcmds, parent) ==
    LET handler == Resolve(T, Tail(subcmds))
    IN  IF handler = Absent THEN NotFound
        ELSE Found(handler, SubSeq(subcmds, 2, Len(subcmds) - 1))

\* header starts with '*' (lines 118-125)
FindCommonResetParent(T, subcmds, parent) ==
    IF Len(subcmds) > 1 THEN NotFound
    ELSE IF HasKey(T, Root, subcmds[1])
         THEN Found(T[T[Root].keys[subcmds[1]]].leaf, << >>)
         ELSE NotFound
FindCommon(T, subcmds, parent) ==
    IF Len(subcmds) > 1 THEN NotFound
    ELSE IF HasKey(T, Root, subcmds[1])
         THEN Found(T[T[Root].keys[subcmds[1]]].leaf, parent)
         ELSE NotFound

\* any other header (lines 126-130)
FindRelativeRootFallback(T, subcmds, parent) ==
    LET handler == Resolve(T, parent \o subcmds)
    IN  IF handler # Absent THEN Found(handler, parent \o Front(subcmds))
        ELSE IF Resolve(T, subcmds) # Absent
             THEN Found(Resolve(T, subcmds), Front(subcmds))
             ELSE NotFound
FindRelativeOwnParent(T, subcmds, parent) ==
    LET handler == Resolve(T, parent \o subcmds)
    IN  IF handler = Absent THEN NotFound
        ELSE Found(handler, Front(subcmds))
FindRelative(T, subcmds, parent) ==
    LET handler == Resolve(T, parent \o subcmds)
    IN  IF handler = Absent THEN NotFound
        ELSE Found(handler, parent \o Front(subcmds))

Find(T, header, parent) ==
    LET subcmds == Split(header, ":")
    IN  IF subcmds[1] = << >> THEN FindGlobal(T, subcmds, parent)
        ELSE IF subcmds[1][1] = "*" THEN FindCommon(T, subcmds, parent)
        ELSE FindRelative(T, subcmds, parent)

(***************************************************************************)
(* Handlers.  A handler is called as handler(query, *args); the model      *)
(* keeps of a call what decides its outcome: the closure that was          *)
(* registered, the query flag and the number of arguments.  The outcome    *)
(* is a returned text, a returned None, a ProtocolError, or an exception   *)
(* of another class (TypeError, NameError).                                *)
(***************************************************************************)
Handler(kind, name) == [kind |-> kind, name |-> name]

Returned(text)  == [out |-> "value", text |-> text]
ReturnedNone    == [out |-> "None", text |-> << >>]
RaisedProtocol  == [out |-> "ProtocolError", text |-> << >>]
RaisedOther     == [out |-> "Exception", text |-> << >>]

Invoke(handler, query, nargs) ==
    CASE handler.kind = "gs" ->          \* test_instrument.thandler_gs
            Returned(handler.name)
      [] handler.kind = "getter" ->      \* test_instrument.thandler_getter
            IF query THEN Returned(handler.name) ELSE RaisedProtocol
      [] handler.kind = "setter" ->      \* test_instrument.thandler_setter
            IF ~query THEN Returned(handler.name) ELSE RaisedProtocol
      [] handler.kind = "query_only" ->  \* instrument.make_handler(getter=...)
            IF query THEN Returned(handler.name) ELSE RaisedProtocol
      [] handler.kind = "symbol" ->      \* instrument.symbol
            IF ~query \/ nargs > 0 THEN RaisedProtocol
            ELSE Returned(handler.name)
      [] handler.kind = "writeonly" ->   \* AMI420.add_writeonly, setter=lambda: ...
            IF query THEN ReturnedNone
            ELSE IF nargs # 0 THEN RaisedOther ELSE ReturnedNone
      [] handler.kind = "readonly" ->    \* AMI420.add_readonly, getter=lambda: ...
            IF query THEN Returned(handler.name) ELSE ReturnedNone
      [] handler.kind = "dblread" ->     \* AMI420.add_dblproperty, read_handler
            IF query /\ nargs = 0 THEN Returned(handler.name)
            ELSE IF nargs = 0 THEN RaisedProtocol ELSE RaisedOther
      [] handler.kind = "quench" ->      \* AMI420.quench_command
            IF query /\ nargs = 0 THEN Returned(handler.name)
            ELSE IF ~query /\ nargs = 1 THEN RaisedOther
            ELSE RaisedProtocol

(***************************************************************************)
(* scpi.parse.  A parsed program message is a sequence of units; a unit    *)
(* is a group with the results names `header` and `args`, or the text the  *)
(* grammar skipped as unparseable (a str).  The header text includes the   *)
(* '?' of a query.  `rest` marks a unit after which text is left that is   *)
(* neither a ';' nor the end of the line: parseString(parseAll=True) then  *)
(* raises a ParseException.                                                *)
(***************************************************************************)
Unit(header, nargs) ==
    [str |-> FALSE, header |-> header, nargs |-> nargs, rest |-> FALSE]
UnitAndRest(header, nargs) ==
    [str |-> FALSE, header |-> header, nargs |-> nargs, rest |-> TRUE]
ErrorText == [str |-> TRUE, header |-> << >>, nargs |-> 0, rest |-> FALSE]

\* scpi.parse(line) raises
ParseRaises(commands) == \E i \in 1..Len(commands) : commands[i].rest

\* command.query: the grammar defines no results name `query`, and a
\* ParseResults answers an unknown name with the empty string
UnitQuery(command) == FALSE

(***************************************************************************)
(* SCPI_receiver.process, as consumed by process_messages: the responses   *)
(* yielded so far, the parent context, and how the generator ended.        *)
(* `trace` observes each dispatched unit.                                  *)
(***************************************************************************)
Dispatched(i, command, before, found) ==
    [index |-> i, header |-> command.header, before |-> before,
     handler |-> found.handler, after |-> found.parent]

RECURSIVE Process(_, _, _, _)
Process(T, commands, i, S) ==
    IF i > Len(commands) THEN S
    ELSE
      LET command == commands[i]
      IN  IF command.str THEN [S EXCEPT !.raised = "ProtocolError", !.at = i]
          ELSE IF command.header = << >> THEN Process(T, commands, i + 1, S)
          ELSE
            LET found == Find(T, command.header, S.parent)
            IN  IF found.err
                THEN [S EXCEPT !.raised = "ProtocolError", !.at = i]
                ELSE
                  LET r  == Invoke(found.handler, UnitQuery(command), command.nargs)
                      S1 == [S EXCEPT !.parent = found.parent,
                                      !.trace = Append(@, Dispatched(i, command, S.parent, found))]
                  IN  IF r.out = "ProtocolError"
                      THEN [S1 EXCEPT !.raised = "ProtocolError", !.at = i]
                      ELSE IF r.out = "Exception"
                      THEN [S1 EXCEPT !.raised = "Exception", !.at = i]
                      ELSE Process(T, commands, i + 1,
                                   [S1 EXCEPT !.responses = Append(@, r)])

ProcessStart == [parent |-> << >>, responses |-> << >>, raised |-> "no",
                 at |-> 0, trace |-> << >>]

\* line.upper() applied to the headers of the parsed line
UpperLine(commands) ==
    [i \in 1..Len(commands) |-> [commands[i] EXCEPT !.header = Upper(@)]]

\* ';'.join(responses): the text, or a TypeError when an item is None
RECURSIVE JoinFrom(_, _)
JoinFrom(responses, i) ==
    IF i > Len(responses) THEN << >>
    ELSE IF i = Len(responses) THEN responses[i].text
    ELSE responses[i].text \o << ";" >> \o JoinFrom(responses, i + 1)

JoinRaises(responses) == \E i \in 1..Len(responses) : responses[i].out = "None"
Join(responses) == JoinFrom(responses, 1)

(***************************************************************************)
(* One iteration of the loop of SCPI_receiver.process_messages on the      *)
(* receiver r = [commands, iqueue, oqueue, error_log]: take a line,        *)
(* process it, log a ProtocolError, and in the finally clause put the      *)
(* joined responses on the output queue.  `escaped` tells whether an       *)
(* exception leaves process_messages.                                      *)
(***************************************************************************)
LoggedError(line, S) == [line |-> line, at |-> S.at]

PutResponses(r, S) == Append(r.oqueue, Join(S.responses) \o << "\n" >>)

ProcessMessage(r) ==
    LET line == UpperLine(Head(r.iqueue))
        S    == IF ParseRaises(line)
                THEN [ProcessStart EXCEPT !.raised = "Exception"]
                ELSE Process(r.commands, line, 1, ProcessStart)
        log  == IF S.raised = "ProtocolError"
                THEN Append(r.error_log, LoggedError(line, S))
                ELSE r.error_log
        r1   == [r EXCEPT !.iqueue = Tail(@), !.error_log = log]
    IN  [receiver |-> IF JoinRaises(S.responses) THEN r1
                      ELSE [r1 EXCEPT !.oqueue = PutResponses(r1, S)],
         escaped  |-> S.raised = "Exception" \/ JoinRaises(S.responses),
         run      |-> S]

(***************************************************************************)
(* The receiver under test: the registrations of the test suites and of    *)
(* the instruments, and the program messages sent to it.                   *)
(***************************************************************************)
Pattern(cmd, kind, ignore_case) ==
    [cmd |-> cmd, handler |-> Handler(kind, cmd), ignore_case |-> ignore_case]

\* TestTreeResolution.setUp: add_gs of eight headers
SetUpPatterns ==
    << Pattern(<<":","F","R","E","Q","U","E","N","C","Y",":","S","T","A","R","T">>, "gs", TRUE),
       Pattern(<<":","F","R","E","Q","U","E","N","C","Y",":","S","T","O","P">>, "gs", TRUE),
       Pattern(<<":","F","R","E","Q","U","E","N","C","Y",":","S","L","E","W">>, "gs", TRUE),
       Pattern(<<":","F","R","E","Q","U","E","N","C","Y",":","S","L","E","W",":","A","U","T","O">>, "gs", TRUE),
       Pattern(<<":","F","R","E","Q","U","E","N","C","Y",":","B","A","N","D","W","I","D","T","H">>, "gs", TRUE),
       Pattern(<<":","P","O","W","E","R",":","S","T","A","R","T">>, "gs", TRUE),
       Pattern(<<":","P","O","W","E","R",":","S","T","O","P">>, "gs", TRUE),
       Pattern(<<":","B","A","N","D">>, "gs", TRUE) >>

\* further add_command calls: headers that meet the keys of others, the
\* same mnemonic in another letter case, a common command, a handler that
\* raises ProtocolError, and two registrations of the AMI420
ExtraPatterns ==
    { Pattern(<<":","F","R","E","Q",":","S","T","E","P">>, "gs", TRUE),
      Pattern(<<":","F","R","E","Q","U","E","N","T">>, "gs", TRUE),
      Pattern(<<":","F","R","E","Q","U","E","N","C","Y",":","S","T","O","P">>, "gs", TRUE),
      Pattern(<<":","B","A","N","D","W","I","D","T","H",":","M","A","X">>, "gs", TRUE),
      Pattern(<<":","B","A","N","D">>, "gs", TRUE),
      Pattern(<<":","v","o","l","u","m","e",":","a">>, "gs", TRUE),
      Pattern(<<":","V","O","L","U","M","E",":","b">>, "gs", TRUE),
      Pattern(<<"*","I","D","N">>, "gs", TRUE),
      Pattern(<<":","P","O","W","E","R",":","L","E","V","E","L">>, "getter", TRUE),
      Pattern(<<":","R","A","M","P">>, "writeonly", FALSE),
      Pattern(<<":","Q","U","e","n","c","h">>, "quench", FALSE) }

\* add_command calls that raise: a short mnemonic that is a key already,
\* a leaf that is registered already, and patterns with an empty mnemonic
FailPatterns ==
    { Pattern(<<":","F","R","E","Q","U","E","N","T">>, "gs", TRUE),
      Pattern(<<":","F","R","E","Q","U","E","N","C","Y",":","S","T","O","P">>, "gs", TRUE),
      Pattern(<<":","B","A","N","D">>, "gs", TRUE),
      Pattern(<<":","N","E","W",":">>, "gs", TRUE),
      Pattern(<<":","N","E","W",":",":","X">>, "gs", TRUE),
      Pattern(<<":","F","R","E","Q","U","E","N","C","Y",":","S","T","E","P","P","I","N","G",":">>, "gs", TRUE),
      Pattern(<<":","P","O","W","E","R",":","L","E","V","E","L">>, "gs", TRUE) }

\* program messages, as scpi.parse reads them
Lines ==
    { << Unit(<<"F","R","E","Q",":","S","T","A","R">>, 1), Unit(<<"S","T","O","P">>, 1) >>,
      << Unit(<<"F","R","E","Q",":","S","T","A","R">>, 1), Unit(<<":","F","R","E","Q",":","S","T","O","P">>, 1) >>,
      << Unit(<<"F","R","E","Q",":","S","T","A","R">>, 1), Unit(<<"P","O","W",":","S","T","O","P">>, 1) >>,
      << Unit(<<"F","R","E","Q",":","S","T","A","R">>, 1), Unit(<<"S","L","E","W",":","A","U","T","O">>, 1) >>,
      << Unit(<<"F","R","E","Q",":","S","L","E","W",":","A","U","T","O">>, 1), Unit(<<"S","T","O","P">>, 1) >>,
      << Unit(<<"F","R","E","Q",":","S","L","E","W">>, 1), Unit(<<"A","U","T","O">>, 1) >>,
      << Unit(<<"F","R","E","Q",":","S","T","A","R","T">>, 1), Unit(<<"B","A","N","D">>, 1) >>,
      << Unit(<<"F","R","E","Q",":","S","T","A","R","T">>, 1), Unit(<<":","B","A","N","D">>, 1) >>,
      << Unit(<<"f","r","e","q",":","s","t","a","r">>, 1), Unit(<<"*","i","d","n">>, 0), Unit(<<"s","t","o","p">>, 1) >>,
      << Unit(<<"F","R","E","Q",":","S","T","A","R">>, 1), Unit(<<"S","L","E","W",":","A","U","T","O">>, 1), Unit(<<"A","U","T","O">>, 1) >>,
      << Unit(<<":","P","O","W",":","S","T","A","R">>, 1), Unit(<<"S","T","O","P">>, 0), Unit(<<"L","E","V">>, 0) >>,
      << Unit(<<":","B","A","N","D">>, 0), ErrorText >>,
      << Unit(<<":","R","A","M","P">>, 0), Unit(<<":","N","O","N","E">>, 0) >>,
      << Unit(<<":","R","A","M","P">>, 1) >>,
      << UnitAndRest(<<"*","I","D","N">>, 1) >>,
      << Unit(<<":","Q","U">>, 1) >> }

NewReceiver == [commands |-> EmptyTree, iqueue |-> << >>, oqueue |-> << >>,
                error_log |-> << >>]

VARIABLES
    receiver,    \* the SCPI_receiver: commands, iqueue, oqueue, error_log
    escaped,     \* an exception has left process_messages
    nregs,       \* add_command calls made so far
    nlines,      \* lines sent so far
    fixture,     \* setUp has run
    walked,      \* observation: the (dict, long, short) triples registered so far
    anyFailed,   \* observation: some add_command call raised
    lastReg,     \* observation: the last add_command call
    lastRun      \* observation: the last line processed

treeVars == << receiver, escaped, nregs, nlines, fixture, walked, anyFailed,
               lastReg, lastRun >>

VARIABLES
    experiments,     \* Server.experiments: address -> serial of its Experiment, 0 = none
    created,         \* observation: Experiment objects created per address
    threads,         \* the Experiment threads: experiment -> "running", "stopped", "dead"
    instruments,     \* the instruments of the Experiments: iqueue, oqueue, error_log
    instrulock,      \* Server.instrulock: the listeners that hold it
    buffer,          \* Server.buffer
    shutdown_event,  \* Server.shutdown_event
    shutdownBy,      \* observation: who set shutdown_event
    listeners,       \* port -> position of Server.listen and its accepted connection
    conns,           \* connection -> client socket and position of Server.communicate
    wire,            \* connection -> bytes sent by the client and not yet received
    nsent,           \* bytes sent by all clients so far
    delivered        \* observation: (address of a byte, address of the instrument it was put to)

serverVars == << experiments, created, threads, instruments, instrulock, buffer,
                 shutdown_event, shutdownBy, listeners, conns, wire, nsent,
                 delivered >>

VARIABLES
    polling          \* the instruments whose process_messages call is in progress, with the thread that runs it

sessionVars == << polling >>

VARIABLES
    magnet,          \* AMI420: field, voltage, field_target, field_rate
    ramp_thread,     \* AMI420_RampThread: its events, its state and its position
    caller,          \* position of the thread that runs the handlers and shutdown()
    cmds,            \* observation: the commands handled so far
    watch            \* observation: increments made since a handler interrupted a ramp

workerVars == << magnet, ramp_thread, caller, cmds, watch >>

\* what the operations on one receiver, the threads of the server, and the
\* magnet, leave alone
VARIABLES
    vi,       \* a VirtualInstrument: commands, queues, error_log, error_index
    viRun     \* the last line it processed, and the instrument before it
errVars == << vi, viRun >>

VARIABLES
    props,      \* the settable values of the current source: value, set_hooks
    meter,      \* the voltmeter: voltage
    lastCall    \* the last call of a handler: its kind, result and hook runs
hookVars == << props, meter, lastCall >>

VARIABLES
    registry,   \* the commands of a receiver that only registers
    defined,    \* the add_command calls that returned
    regCall     \* the last add_command call: pattern, outcome, tree before
regVars == << registry, defined, regCall >>

VARIABLES
    fprop,     \* a FloatProperty
    ami,       \* the double properties of an AMI420, its error_log and oqueue
    valCall    \* the last call of a resolver: its arguments and its outcome
valVars == << fprop, ami, valCall >>

VARIABLES
    answer     \* the last query of the state of the power supply, and its outcome
queryVars == << answer >>

VARIABLES
    derived    \* the keys derived from one mnemonic by add_command and by the parser
keyVars == << derived >>

VARIABLES
    sent       \* observation: all the bytes a client has sent on its connection, in order
streamVars == << sent >>

restOfTree == << serverVars, sessionVars, workerVars, errVars, hookVars, regVars, valVars, queryVars, keyVars, streamVars >>
restOfServer == << treeVars, sessionVars, workerVars, errVars, hookVars, regVars, valVars, queryVars, keyVars, streamVars >>
restOfWorker == << treeVars, serverVars, sessionVars, errVars, hookVars, regVars, valVars, queryVars, keyVars, streamVars >>
restOfErrors == << treeVars, serverVars, sessionVars, workerVars, hookVars, regVars, valVars, queryVars, keyVars, streamVars >>
restOfSession == << treeVars, workerVars, errVars, hookVars, regVars, valVars, queryVars, keyVars, streamVars >>
restOfRegistry == << treeVars, serverVars, sessionVars, workerVars, errVars, hookVars, valVars, queryVars, keyVars, streamVars >>
restOfValues == << treeVars, serverVars, sessionVars, workerVars, errVars, hookVars, regVars, queryVars, keyVars, streamVars >>
restOfQuery == << treeVars, serverVars, sessionVars, errVars, hookVars, regVars, valVars, keyVars, streamVars >>
restOfKeys == << treeVars, serverVars, sessionVars, workerVars, errVars, hookVars, regVars, valVars, queryVars, streamVars >>
restOfStream == << treeVars, sessionVars, workerVars, errVars, hookVars, regVars, valVars, queryVars, keyVars >>
restOfHooks == << treeVars, serverVars, sessionVars, workerVars, errVars, regVars, valVars, queryVars, keyVars, streamVars >>

NoReg == [called |-> FALSE, cmd |-> << >>, err |-> FALSE, clash |-> FALSE]
NoRun == [ran |-> FALSE, line |-> << >>, run |-> ProcessStart,
          before |-> [oqueue |-> << >>, error_log |-> << >>]]

TreeStart ==
    /\ receiver = NewReceiver
    /\ escaped = FALSE
    /\ nregs = 0
    /\ nlines = 0
    /\ fixture = FALSE
    /\ walked = {}
    /\ anyFailed = FALSE
    /\ lastReg = NoReg
    /\ lastRun = NoRun

\* the registrations of a list of patterns, one after the other
RECURSIVE RegisterAll(_, _, _)
RegisterAll(R, patterns, i) ==
    IF i > Len(patterns) THEN R
    ELSE LET p == patterns[i]
             A == AddCommand(R.tree, p.cmd, p.handler, p.ignore_case)
         IN  RegisterAll([tree |-> A.tree, err |-> R.err \/ A.err,
                          steps |-> R.steps \cup A.steps],
                         patterns, i + 1)

\* the triples a call walked, with the ignore_case argument of the call
Observed(steps, ignore_case) ==
    {[dct |-> w.dct, long |-> w.long, short |-> w.short,
      ignore_case |-> ignore_case] : w \in steps}

\* TestTreeResolution.setUp
SetUp ==
    /\ ~fixture /\ nregs = 0 /\ nlines = 0
    /\ LET R == RegisterAll([tree |-> receiver.commands, err |-> FALSE, steps |-> {}],
                            SetUpPatterns, 1)
       IN  /\ receiver' = [receiver EXCEPT !.commands = R.tree]
           /\ walked' = walked \cup Observed(R.steps, TRUE)
           /\ anyFailed' = (anyFailed \/ R.err)
    /\ fixture' = TRUE
    /\ UNCHANGED << escaped, nregs, nlines, lastReg, lastRun >>
    /\ UNCHANGED restOfTree

\* one add_command call
Register(p) ==
    /\ nregs < MaxRegs /\ nlines = 0
    /\ LET A == AddCommand(receiver.commands, p.cmd, p.handler, p.ignore_case)
       IN  /\ receiver' = [receiver EXCEPT !.commands = A.tree]
           /\ walked' = walked \cup Observed(A.steps, p.ignore_case)
           /\ anyFailed' = (anyFailed \/ A.err)
           /\ lastReg' = [called |-> TRUE, cmd |-> p.cmd, err |-> A.err,
                          clash |-> A.clash]
    /\ nregs' = nregs + 1
    /\ UNCHANGED << escaped, nlines, fixture, lastRun >>
    /\ UNCHANGED restOfTree

\* a client thread: instrument.iqueue.put(cmd)
PutLine(line) ==
    /\ nlines < MaxLines
    /\ receiver' = [receiver EXCEPT !.iqueue = Append(@, line)]
    /\ nlines' = nlines + 1
    /\ UNCHANGED << escaped, nregs, fixture, walked, anyFailed, lastReg, lastRun >>
    /\ UNCHANGED restOfTree

\* one iteration of process_messages
ProcessOne ==
    /\ receiver.iqueue # << >>
    /\ LET P == ProcessMessage(receiver)
       IN  /\ receiver' = P.receiver
           /\ escaped' = P.escaped
           /\ lastRun' = [ran |-> TRUE, line |-> UpperLine(Head(receiver.iqueue)),
                          run |-> P.run,
                          before |-> [oqueue |-> receiver.oqueue,
                                      error_log |-> receiver.error_log]]
    /\ UNCHANGED << nregs, nlines, fixture, walked, anyFailed, lastReg >>
    /\ UNCHANGED restOfTree

(***************************************************************************)
(* The server: one Experiment per client address, one instrument per port  *)
(* of an Experiment, a listener thread per port and a communication        *)
(* thread per connection.                                                  *)
(***************************************************************************)
MaxConns == 2
MaxSent == 2

\* QHEExperiment.ports
PORT_K == 9001
PORT_M == 9002
Ports == {PORT_K, PORT_M}

\* address[0] of the clients
Addresses == {"A", "B"}
Conns == 1..MaxConns

\* the Experiment and instrument objects the connections can make exist
Exps == Addresses \X (1..MaxConns)
Insts == Addresses \X (1..MaxConns) \X Ports

\* VirtualInstrument.__init__
VirtualInstrumentPatterns ==
    << Pattern(<<"*","I","D","N">>, "symbol", TRUE),
       Pattern(<<"*","E","R","R">>, "query_only", TRUE) >>

\* AMI420.__init__: the common commands of the base class and two of the
\* commands of the magnet
AMI420Patterns ==
    VirtualInstrumentPatterns
    \o << Pattern(<<":","R","A","M","P">>, "writeonly", FALSE),
          Pattern(<<":","Q","U","e","n","c","h">>, "quench", FALSE) >>

TreeOf(patterns) ==
    RegisterAll([tree |-> EmptyTree, err |-> FALSE, steps |-> {}], patterns, 1).tree

VirtualInstrumentTree == TreeOf(VirtualInstrumentPatterns)
AMI420Tree == TreeOf(AMI420Patterns)

\* QHEExperiment.__init__: the instrument behind a port (of the instrument
\* at PORT_K, the commands of its base class)
PortTree(port) == IF port = PORT_M THEN AMI420Tree ELSE VirtualInstrumentTree

\* an Experiment object and the instrument objects it creates
Exp(address, serial) == << address, serial >>
Inst(e, port) == << e[1], e[2], port >>
ExpOf(i) == << i[1], i[2] >>
Owner(i) == i[1]
NoInst == << >>

NewQueues == [iqueue |-> << >>, oqueue |-> << >>, error_log |-> << >>]
NewInstruments(e) == [i \in {Inst(e, p) : p \in Ports} |-> NewQueues]

(***************************************************************************)
(* The bytes of a client.  A byte stands for the line ending or for the    *)
(* text of one program message unit, and carries the connection it was     *)
(* sent on.                                                                *)
(***************************************************************************)
Symbols == {"NL", "ramp1"}
Byte(c, sym) == [src |-> c, sym |-> sym]

\* the unit scpi.parse reads from the text of a symbol
SymUnit(sym) == Unit(<<":","r","a","m","p">>, 1)

\* scpi.parse of a line: the empty line is skipped as unparseable text, a
\* line of one unit parses, and in a line of several texts without ';'
\* text is left after the first unit
ParseBytes(line) ==
    IF Len(line) = 0 THEN << ErrorText >>
    ELSE IF Len(line) = 1 THEN << SymUnit(line[1].sym) >>
    ELSE << [SymUnit(line[1].sym) EXCEPT !.rest = TRUE] >>

\* things.split(line_end_chars): the complete lines and the last piece
RECURSIVE SplitLines(_, _, _, _)
SplitLines(things, i, cur, lines) ==
    IF i > Len(things) THEN [lines |-> lines, tail |-> cur]
    ELSE IF things[i].sym = "NL"
         THEN SplitLines(things, i + 1, << >>, Append(lines, cur))
         ELSE SplitLines(things, i + 1, Append(cur, things[i]), lines)

Sources(line) == {line[k].src : k \in 1..Len(line)}

\* the lock can be taken
CanAcquireAlways(lock) == TRUE
CanAcquire(lock) == lock = {}

ServerStart ==
    /\ experiments = [a \in Addresses |-> 0]
    /\ created = [a \in Addresses |-> 0]
    /\ threads = << >>
    /\ instruments = << >>
    /\ instrulock = {}
    /\ buffer = << >>
    /\ shutdown_event = FALSE
    /\ shutdownBy = {}
    /\ listeners = [p \in Ports |-> [pc |-> "accept", conn |-> 0]]
    /\ conns = [c \in Conns |-> [state |-> "closed", addr |-> "A", port |-> PORT_K,
                                 pc |-> "none", things |-> << >>, inst |-> NoInst]]
    /\ wire = [c \in Conns |-> << >>]
    /\ nsent = 0
    /\ delivered = {}

SessionStart == polling = {}


(***************************************************************************)
(* The clients.                                                            *)
(***************************************************************************)
\* a client at address a connects to port p
Connect(c, a, p) ==
    /\ conns[c].state = "closed"
    /\ \A d \in Conns : d < c => conns[d].state # "closed"
    /\ conns' = [conns EXCEPT ![c].state = "pending", ![c].addr = a, ![c].port = p]
    /\ UNCHANGED << experiments, created, threads, instruments, instrulock, buffer,
                    shutdown_event, shutdownBy, listeners, wire, nsent, delivered >>
    /\ UNCHANGED restOfServer

\* a client sends a byte on its connection
ClientSend(c, sym) ==
    /\ conns[c].state # "closed"
    /\ nsent < MaxSent
    /\ wire' = [wire EXCEPT ![c] = Append(@, Byte(c, sym))]
    /\ nsent' = nsent + 1
    /\ UNCHANGED << experiments, created, threads, instruments, instrulock, buffer,
                    shutdown_event, shutdownBy, listeners, conns, delivered >>
    /\ UNCHANGED restOfServer

(***************************************************************************)
(* Server.listen and Server.instrument, for the listener of port p.        *)
(***************************************************************************)
\* serversocket.accept() returns the connection c
ListenAccept(p, c) ==
    /\ listeners[p].pc = "accept"
    /\ conns[c].state = "pending" /\ conns[c].port = p
    /\ listeners' = [listeners EXCEPT ![p] = [pc |-> "lock", conn |-> c]]
    /\ conns' = [conns EXCEPT ![c].state = "accepted"]
    /\ UNCHANGED << experiments, created, threads, instruments, instrulock, buffer,
                    shutdown_event, shutdownBy, wire, nsent, delivered >>
    /\ UNCHANGED restOfServer

\* with self.instrulock: if address not in self.experiments
ListenAcquire(p) ==
    /\ listeners[p].pc = "lock"
    /\ CanAcquire(instrulock)
    /\ instrulock' = instrulock \cup {p}
    /\ listeners' = [listeners EXCEPT ![p].pc =
                        IF experiments[conns[listeners[p].conn].addr] = 0
                        THEN "create" ELSE "lookup"]
    /\ UNCHANGED << experiments, created, threads, instruments, buffer,
                    shutdown_event, shutdownBy, conns, wire, nsent, delivered >>
    /\ UNCHANGED restOfServer

\* self.experiments[address] = self.exp_class(...); .start()
ListenCreate(p) ==
    /\ listeners[p].pc = "create"
    /\ LET a == conns[listeners[p].conn].addr
           n == created[a] + 1
       IN  /\ experiments' = [experiments EXCEPT ![a] = n]
           /\ created' = [created EXCEPT ![a] = n]
           /\ threads' = (Exp(a, n) :> "running") @@ threads
           /\ instruments' = NewInstruments(Exp(a, n)) @@ instruments
    /\ listeners' = [listeners EXCEPT ![p].pc = "lookup"]
    /\ UNCHANGED << instrulock, buffer, shutdown_event, shutdownBy, conns, wire,
                    nsent, delivered >>
    /\ UNCHANGED restOfServer

\* return self.experiments[address].instruments[port], the lock is released,
\* and the communication thread of the connection is started
ListenLookup(p) ==
    /\ listeners[p].pc = "lookup"
    /\ LET c == listeners[p].conn
           a == conns[c].addr
       IN  conns' = [conns EXCEPT ![c].state = "open", ![c].pc = "loop",
                                  ![c].inst = Inst(Exp(a, experiments[a]), p)]
    /\ instrulock' = instrulock \ {p}
    /\ listeners' = [listeners EXCEPT ![p] = [pc |-> "accept", conn |-> 0]]
    /\ UNCHANGED << experiments, created, threads, instruments, buffer,
                    shutdown_event, shutdownBy, wire, nsent, delivered >>
    /\ UNCHANGED restOfServer

\* accept() times out and the loop sees shutdown_event set
ListenStop(p) ==
    /\ listeners[p].pc = "accept"
    /\ shutdown_event
    /\ listeners' = [listeners EXCEPT ![p].pc = "stopped"]
    /\ UNCHANGED << experiments, created, threads, instruments, instrulock, buffer,
                    shutdown_event, shutdownBy, conns, wire, nsent, delivered >>
    /\ UNCHANGED restOfServer

(***************************************************************************)
(* Server.communicate, for the connection c.                               *)
(***************************************************************************)
\* the loop goes on and the left operand of self.buffer + recv() is read
CommRead(c) ==
    /\ conns[c].pc = "loop"
    /\ ~shutdown_event
    /\ conns' = [conns EXCEPT ![c].pc = "recv", ![c].things = buffer]
    /\ UNCHANGED << experiments, created, threads, instruments, instrulock, buffer,
                    shutdown_event, shutdownBy, listeners, wire, nsent, delivered >>
    /\ UNCHANGED restOfServer

\* recv returns the first n bytes; the lines are put to the instrument and
\* the last piece is stored in self.buffer
CommRecv(c, n) ==
    /\ conns[c].pc = "recv"
    /\ n \in 1..Len(wire[c])
    /\ LET things == conns[c].things \o SubSeq(wire[c], 1, n)
           S == SplitLines(things, 1, << >>, << >>)
           i == conns[c].inst
       IN  /\ buffer' = S.tail
           /\ instruments' = [instruments EXCEPT ![i].iqueue = @ \o S.lines]
           /\ delivered' = delivered \cup
                 {<< conns[src].addr, Owner(i) >> :
                     src \in UNION {Sources(S.lines[k]) : k \in 1..Len(S.lines)}}
    /\ wire' = [wire EXCEPT ![c] = SubSeq(@, n + 1, Len(@))]
    /\ conns' = [conns EXCEPT ![c].pc = "send", ![c].things = << >>]
    /\ UNCHANGED << experiments, created, threads, instrulock, shutdown_event,
                    shutdownBy, listeners, nsent >>
    /\ UNCHANGED restOfServer

\* recv raises socket.timeout, with the incomplete tail given up
CommTimeoutDropsTail(c) ==
    /\ conns[c].pc = "recv"
    /\ wire[c] = << >>
    /\ buffer' = << >>
    /\ conns' = [conns EXCEPT ![c].pc = "send", ![c].things = << >>]
    /\ UNCHANGED << experiments, created, threads, instruments, instrulock,
                    shutdown_event, shutdownBy, listeners, wire, nsent, delivered >>
    /\ UNCHANGED restOfServer

\* recv raises socket.timeout
CommTimeout(c) ==
    /\ conns[c].pc = "recv"
    /\ wire[c] = << >>
    /\ conns' = [conns EXCEPT ![c].pc = "send", ![c].things = << >>]
    /\ UNCHANGED << experiments, created, threads, instruments, instrulock, buffer,
                    shutdown_event, shutdownBy, listeners, wire, nsent, delivered >>
    /\ UNCHANGED restOfServer

\* datasocket.send(instrument.oqueue.get())
CommSend(c) ==
    /\ conns[c].pc = "send"
    /\ instruments[conns[c].inst].oqueue # << >>
    /\ instruments' = [instruments EXCEPT ![conns[c].inst].oqueue = Tail(@)]
    /\ UNCHANGED << experiments, created, threads, instrulock, buffer, shutdown_event,
                    shutdownBy, listeners, conns, wire, nsent, delivered >>
    /\ UNCHANGED restOfServer

\* instrument.oqueue.empty(): back to the head of the loop
CommSendDone(c) ==
    /\ conns[c].pc = "send"
    /\ instruments[conns[c].inst].oqueue = << >>
    /\ conns' = [conns EXCEPT ![c].pc = "loop"]
    /\ UNCHANGED << experiments, created, threads, instruments, instrulock, buffer,
                    shutdown_event, shutdownBy, listeners, wire, nsent, delivered >>
    /\ UNCHANGED restOfServer

\* the loop sees shutdown_event set
CommStop(c) ==
    /\ conns[c].pc = "loop"
    /\ shutdown_event
    /\ conns' = [conns EXCEPT ![c].pc = "stopped"]
    /\ UNCHANGED << experiments, created, threads, instruments, instrulock, buffer,
                    shutdown_event, shutdownBy, listeners, wire, nsent, delivered >>
    /\ UNCHANGED restOfServer

\* the owner of the server sets the shutdown signal
TearDown ==
    /\ ~shutdown_event
    /\ shutdown_event' = TRUE
    /\ shutdownBy' = shutdownBy \cup {"owner"}
    /\ UNCHANGED << experiments, created, threads, instruments, instrulock, buffer,
                    listeners, conns, wire, nsent, delivered >>
    /\ UNCHANGED restOfServer

(***************************************************************************)
(* Experiment.run.                                                         *)
(***************************************************************************)
Reply(texts, line) ==
    [k \in 1..Len(texts) |-> [text |-> texts[k], of |-> Sources(line)]]

\* instrument.process_messages() takes one line of the instrument i; an
\* exception that leaves it sets end_event and ends the thread
ExperimentPoll(i) ==
    /\ i \in DOMAIN instruments
    /\ threads[ExpOf(i)] = "running"
    /\ instruments[i].iqueue # << >>
    /\ LET line == Head(instruments[i].iqueue)
           P == ProcessMessage([commands |-> PortTree(i[3]),
                                iqueue |-> << ParseBytes(line) >>,
                                oqueue |-> << >>, error_log |-> << >>])
       IN  /\ instruments' = [instruments EXCEPT
                 ![i].iqueue = Tail(@),
                 ![i].oqueue = @ \o Reply(P.receiver.oqueue, line),
                 ![i].error_log = @ \o P.receiver.error_log]
           /\ threads' = [threads EXCEPT ![ExpOf(i)] =
                             IF P.escaped THEN "dead" ELSE @]
           /\ shutdown_event' = (shutdown_event \/ P.escaped)
           /\ shutdownBy' = IF P.escaped THEN shutdownBy \cup {"experiment"}
                            ELSE shutdownBy
    /\ UNCHANGED << experiments, created, instrulock, buffer, listeners, conns,
                    wire, nsent, delivered >>
    /\ UNCHANGED restOfServer

\* the loop sees end_event set
ExperimentStop(e) ==
    /\ e \in DOMAIN threads
    /\ threads[e] = "running"
    /\ \A x \in polling : x.thread # e
    /\ shutdown_event
    /\ threads' = [threads EXCEPT ![e] = "stopped"]
    /\ UNCHANGED << experiments, created, instruments, instrulock, buffer,
                    shutdown_event, shutdownBy, listeners, conns, wire, nsent,
                    delivered >>
    /\ UNCHANGED restOfServer
(***************************************************************************)
(* Server.communicate as the instrument sees it: the thread of an open     *)
(* connection puts a complete line on the input queue of its instrument,   *)
(* and takes a response from its output queue.                             *)
(***************************************************************************)
SessionLines(c) == { << >>, << Byte(c, "ramp1") >> }

\* instrument.iqueue.put(cmd)
CommPut(c, line) ==
    /\ conns[c].pc = "loop"
    /\ ~shutdown_event
    /\ nsent < MaxSent
    /\ nsent' = nsent + 1
    /\ instruments' = [instruments EXCEPT ![conns[c].inst].iqueue = Append(@, line)]
    /\ UNCHANGED << experiments, created, threads, instrulock, buffer, shutdown_event,
                    shutdownBy, listeners, conns, wire, delivered >>
    /\ UNCHANGED restOfServer

\* datasocket.send(instrument.oqueue.get(timeout=0.05))
CommGet(c) ==
    /\ conns[c].pc = "loop"
    /\ ~shutdown_event
    /\ instruments[conns[c].inst].oqueue # << >>
    /\ instruments' = [instruments EXCEPT ![conns[c].inst].oqueue = Tail(@)]
    /\ UNCHANGED << experiments, created, threads, instrulock, buffer, shutdown_event,
                    shutdownBy, listeners, conns, wire, nsent, delivered >>
    /\ UNCHANGED restOfServer

(***************************************************************************)
(* Experiment.run, one call of process_messages in two steps: the thread   *)
(* of the Experiment enters the call for an instrument that has a line,    *)
(* and the call returns.  Handlers and the hooks they call run between     *)
(* the two steps, on the thread that made the call.                        *)
(***************************************************************************)
Call(e, i) == [thread |-> e, inst |-> i]

\* the thread of e is at the head of its loops, inside no call
AtLoopAlways(e, calls) == TRUE
AtLoop(e, calls) == \A x \in calls : x.thread # e

\* for instrument in self.instruments.values(): instrument.process_messages()
PollBegin(i) ==
    /\ i \in DOMAIN instruments
    /\ threads[ExpOf(i)] = "running"
    /\ AtLoop(ExpOf(i), polling)
    /\ instruments[i].iqueue # << >>
    /\ polling' = polling \cup {Call(ExpOf(i), i)}
    /\ UNCHANGED serverVars
    /\ UNCHANGED restOfSession

\* process_messages returns, or an exception leaves it
PollEnd(i) ==
    /\ Call(ExpOf(i), i) \in polling
    /\ polling' = polling \ {Call(ExpOf(i), i)}
    /\ LET line == Head(instruments[i].iqueue)
           P == ProcessMessage([commands |-> PortTree(i[3]),
                                iqueue |-> << ParseBytes(line) >>,
                                oqueue |-> << >>, error_log |-> << >>])
       IN  /\ instruments' = [instruments EXCEPT
                 ![i].iqueue = Tail(@),
                 ![i].oqueue = @ \o Reply(P.receiver.oqueue, line),
                 ![i].error_log = @ \o P.receiver.error_log]
           /\ threads' = [threads EXCEPT ![ExpOf(i)] =
                             IF P.escaped THEN "dead" ELSE @]
           /\ shutdown_event' = (shutdown_event \/ P.escaped)
           /\ shutdownBy' = IF P.escaped THEN shutdownBy \cup {"experiment"}
                            ELSE shutdownBy
    /\ UNCHANGED << experiments, created, instrulock, buffer, listeners, conns,
                    wire, nsent, delivered >>
    /\ UNCHANGED restOfSession


(***************************************************************************)
(* Server.communicate: the errors of the transport.                        *)
(***************************************************************************)
\* recv raises an error that is not socket.timeout (the peer has reset the
\* connection): except BaseException sets shutdown_event and raises again,
\* which ends the thread
CommError(c) ==
    /\ conns[c].pc = "recv"
    /\ shutdown_event' = TRUE
    /\ shutdownBy' = shutdownBy \cup {"communicate"}
    /\ conns' = [conns EXCEPT ![c].pc = "failed", ![c].things = << >>]
    /\ UNCHANGED << experiments, created, threads, instruments, instrulock, buffer,
                    listeners, wire, nsent, delivered >>
    /\ UNCHANGED restOfServer

\* datasocket.send raises: the answer taken from oqueue is gone, and the
\* error, outside every try, ends the thread
CommSendError(c) ==
    /\ conns[c].pc = "send"
    /\ instruments[conns[c].inst].oqueue # << >>
    /\ instruments' = [instruments EXCEPT ![conns[c].inst].oqueue = Tail(@)]
    /\ conns' = [conns EXCEPT ![c].pc = "failed"]
    /\ UNCHANGED << experiments, created, threads, instrulock, buffer, shutdown_event,
                    shutdownBy, listeners, wire, nsent, delivered >>
    /\ UNCHANGED restOfServer
(***************************************************************************)
(* The magnet power supply: AMI420 and its AMI420_RampThread.  The field   *)
(* is counted in units in which field_rate * tick is a whole number; the   *)
(* voltage is kept as the last field increment dB * direction, to which    *)
(* it is proportional.                                                     *)
(***************************************************************************)
MaxField == 3
MaxStep == 2
MaxCmds == 2

Targets == 0..MaxField
Steps == 0..MaxStep
Buttons == {"ramp", "pause", "zero"}

Abs(x) == IF x < 0 THEN -x ELSE x
Min(x, y) == IF x < y THEN x ELSE y

\* AMI420.__init__ after the ramp has been configured: field_target and
\* field_rate hold the values of :CONFigure:RAMP:FIELd
NewMagnet(target, step) ==
    [field |-> 0, voltage |-> 0, field_target |-> target, field_rate |-> step]

\* AMI420_RampThread.__init__
NewRampThread(pc) ==
    [pc |-> pc, state |-> "AT_ZERO", target |-> 0,
     ramp_button |-> FALSE, pause_button |-> FALSE, zero_button |-> FALSE,
     quench_event |-> FALSE, shutdown |-> FALSE, state_change |-> FALSE]

\* the increments are counted up to two, which stands for any larger number
NoWatch == [armed |-> FALSE, incs |-> 0]

WorkerStart ==
    /\ \E target \in Targets, step \in Steps : magnet = NewMagnet(target, step)
    /\ ramp_thread = NewRampThread("main")
    /\ caller = "idle"
    /\ cmds = << >>
    /\ watch = NoWatch

\* the worker is inside ramp()
InRamp(t) == t.pc \in {"ramp_enter", "ramp_check", "ramp_step", "ramp_exit"}

(***************************************************************************)
(* AMI420_RampThread.run, one iteration of its loop: the shutdown flag,    *)
(* then the buttons in the order of the if/elif chain.                     *)
(***************************************************************************)
Select(t, m) ==
    IF t.shutdown THEN [t EXCEPT !.pc = "done"]
    ELSE IF t.ramp_button
    THEN [t EXCEPT !.ramp_button = FALSE, !.state = "RAMPING",
                   !.target = m.field_target, !.pc = "ramp_enter"]
    ELSE IF t.pause_button
    THEN [t EXCEPT !.pause_button = FALSE, !.state = "HOLDING"]
    ELSE IF t.zero_button
    THEN [t EXCEPT !.zero_button = FALSE, !.state = "ZEROING",
                   !.target = 0, !.pc = "ramp_enter"]
    ELSE IF t.quench_event
    THEN [t EXCEPT !.quench_event = FALSE, !.state_change = FALSE,
                   !.state = "QUENCHED"]
    ELSE [t EXCEPT !.pc = "sleep"]

\* the quench branch is taken: field and voltage are clamped
Quenches(t) ==
    ~t.shutdown /\ ~t.ramp_button /\ ~t.pause_button /\ ~t.zero_button /\ t.quench_event

WorkerMain ==
    /\ ramp_thread.pc = "main"
    /\ ramp_thread' = Select(ramp_thread, magnet)
    /\ magnet' = IF Quenches(ramp_thread)
                 THEN [magnet EXCEPT !.field = 0, !.voltage = 0] ELSE magnet
    /\ UNCHANGED << caller, cmds, watch >>
    /\ UNCHANGED restOfWorker

\* run: time.sleep(self.tick) returns
WorkerWake ==
    /\ ramp_thread.pc = "sleep"
    /\ ramp_thread' = [ramp_thread EXCEPT !.pc = "main"]
    /\ UNCHANGED << magnet, caller, cmds, watch >>
    /\ UNCHANGED restOfWorker

\* ramp: self.state_change.clear()
WorkerRampEnter ==
    /\ ramp_thread.pc = "ramp_enter"
    /\ ramp_thread' = [ramp_thread EXCEPT !.state_change = FALSE, !.pc = "ramp_check"]
    /\ UNCHANGED << magnet, caller, cmds, watch >>
    /\ UNCHANGED restOfWorker

\* ramp: while not self.state_change.is_set()
WorkerRampCheck ==
    /\ ramp_thread.pc = "ramp_check"
    /\ ramp_thread' = [ramp_thread EXCEPT !.pc =
                          IF ramp_thread.state_change THEN "ramp_exit" ELSE "ramp_step"]
    /\ UNCHANGED << magnet, caller, cmds, watch >>
    /\ UNCHANGED restOfWorker

\* ramp: the body of the loop
Direction(field, target) == IF field > target THEN -1 ELSE 1
Increment(m, target) ==
    Min(m.field_rate, Abs(m.field - target)) * Direction(m.field, target)

WorkerRampStep ==
    /\ ramp_thread.pc = "ramp_step"
    /\ LET target == ramp_thread.target
           dB == Increment(magnet, target)
       IN  /\ magnet' = [magnet EXCEPT !.field = @ + dB, !.voltage = dB]
           /\ ramp_thread' =
                 IF magnet.field + dB = target
                 THEN [ramp_thread EXCEPT
                          !.state = IF target = 0 THEN "AT_ZERO" ELSE "HOLDING",
                          !.pc = "main"]
                 ELSE [ramp_thread EXCEPT !.pc = "ramp_check"]
           /\ watch' = IF magnet.field + dB = target THEN NoWatch
                       ELSE IF watch.armed THEN [watch EXCEPT !.incs = Min(@ + 1, 2)]
                       ELSE watch
    /\ UNCHANGED << caller, cmds >>
    /\ UNCHANGED restOfWorker

\* ramp: the loop was left, self.state_change.clear()
WorkerRampExit ==
    /\ ramp_thread.pc = "ramp_exit"
    /\ ramp_thread' = [ramp_thread EXCEPT !.state_change = FALSE, !.pc = "main"]
    /\ watch' = NoWatch
    /\ UNCHANGED << magnet, caller, cmds >>
    /\ UNCHANGED restOfWorker

WorkerStep ==
    \/ WorkerMain
    \/ WorkerWake
    \/ WorkerRampEnter
    \/ WorkerRampCheck
    \/ WorkerRampStep
    \/ WorkerRampExit

(***************************************************************************)
(* The handlers of :RAMP, :PAUSE and :ZERO and the raising of the quench   *)
(* flag, on the thread that processes the commands: two flag writes each.  *)
(***************************************************************************)
SetButton(t, b) ==
    CASE b = "ramp"  -> [t EXCEPT !.ramp_button = TRUE]
      [] b = "pause" -> [t EXCEPT !.pause_button = TRUE]
      [] b = "zero"  -> [t EXCEPT !.zero_button = TRUE]

\* self.ramp_thread.<button>.set()
Press(b) ==
    /\ caller = "idle"
    /\ Len(cmds) < MaxCmds
    /\ ramp_thread' = SetButton(ramp_thread, b)
    /\ caller' = "second"
    /\ cmds' = Append(cmds, b)
    /\ UNCHANGED << magnet, watch >>
    /\ UNCHANGED restOfWorker

\* a quench_command that clamps the field itself
QuenchOnClamps ==
    /\ caller = "idle"
    /\ Len(cmds) < MaxCmds
    /\ ramp_thread.state # "QUENCHED"
    /\ ramp_thread' = [ramp_thread EXCEPT !.quench_event = TRUE, !.state = "QUENCHED"]
    /\ magnet' = [magnet EXCEPT !.field = 0, !.voltage = 0]
    /\ caller' = "second"
    /\ cmds' = Append(cmds, "quench")
    /\ UNCHANGED watch
    /\ UNCHANGED restOfWorker

\* quench_command: self.ramp_thread.quench_event.set()
QuenchOn ==
    /\ caller = "idle"
    /\ Len(cmds) < MaxCmds
    /\ ramp_thread.state # "QUENCHED"
    /\ ramp_thread' = [ramp_thread EXCEPT !.quench_event = TRUE]
    /\ caller' = "second"
    /\ cmds' = Append(cmds, "quench")
    /\ UNCHANGED << magnet, watch >>
    /\ UNCHANGED restOfWorker

\* self.ramp_thread.state_change.set(): the handler returns
StateChangeSet ==
    /\ caller = "second"
    /\ ramp_thread' = [ramp_thread EXCEPT !.state_change = TRUE]
    /\ caller' = "idle"
    /\ watch' = IF InRamp(ramp_thread) /\ cmds[Len(cmds)] # "ramp"
                THEN [armed |-> TRUE, incs |-> 0] ELSE watch
    /\ UNCHANGED << magnet, cmds >>
    /\ UNCHANGED restOfWorker

\* AMI420.__init__: self.ramp_thread.start(), for the power supply of the
\* Experiment e, once that Experiment is created
WorkerBegin(e) ==
    /\ ramp_thread.pc = "unstarted"
    /\ e \in DOMAIN threads
    /\ ramp_thread' = [ramp_thread EXCEPT !.pc = "main"]
    /\ UNCHANGED << magnet, caller, cmds, watch >>
    /\ UNCHANGED restOfWorker

(***************************************************************************)
(* AMI420.shutdown.                                                        *)
(***************************************************************************)
\* self.ramp_thread.shutdown.set()
ShutdownSet ==
    /\ caller = "idle"
    /\ ramp_thread' = [ramp_thread EXCEPT !.shutdown = TRUE]
    /\ caller' = "shutdown"
    /\ UNCHANGED << magnet, cmds, watch >>
    /\ UNCHANGED restOfWorker

\* self.ramp_thread.state_change.set()
ShutdownSignal ==
    /\ caller = "shutdown"
    /\ ramp_thread' = [ramp_thread EXCEPT !.state_change = TRUE]
    /\ caller' = "join"
    /\ UNCHANGED << magnet, cmds, watch >>
    /\ UNCHANGED restOfWorker

\* self.ramp_thread.join() returns
ShutdownJoin ==
    /\ caller = "join"
    /\ ramp_thread.pc = "done"
    /\ caller' = "joined"
    /\ UNCHANGED << magnet, ramp_thread, cmds, watch >>
    /\ UNCHANGED restOfWorker

(***************************************************************************)
(* The error log of a VirtualInstrument: last_error, the getter behind     *)
(* the common command *ERR, and the lines that fail.                       *)
(***************************************************************************)
MaxErrLines == 3

NoErrors == <<"N","o"," ","e","r","r","o","r","s">>

\* AMI420.__init__: the common commands of the base class and a set command
\* that leaves the magnet alone
SystemPatterns ==
    VirtualInstrumentPatterns
    \o << Pattern(<<":","S","Y","S","T","e","m",":","T","I","M","E",":","R","E","S","e","t">>, "writeonly", FALSE) >>

\* VirtualInstrument.__init__ of the AMI420: its commands, error_index = 0
NewVirtualInstrument ==
    [commands |-> TreeOf(SystemPatterns), iqueue |-> << >>, oqueue |-> << >>,
     error_log |-> << >>, error_index |-> 0]

\* VirtualInstrument.last_error: the instrument afterwards and the text
\* returned (a logged message is a text of one item)
LastError(v) ==
    IF v.error_index < Len(v.error_log)
    THEN [v |-> [v EXCEPT !.error_index = @ + 1],
          text |-> << v.error_log[v.error_index + 1] >>]
    ELSE [v |-> v, text |-> NoErrors]

\* the handler make_handler(getter=self.last_error) returned a response
IsLastError(response) == response.out = "value" /\ response.text = <<"*","E","R","R">>

\* the calls of last_error a run of process made, in order: the responses
\* with the returned texts, and the instrument afterwards
RECURSIVE Getters(_, _, _)
Getters(v, responses, i) ==
    IF i > Len(responses) THEN [v |-> v, responses |-> responses]
    ELSE IF IsLastError(responses[i])
         THEN LET e == LastError(v)
              IN  Getters(e.v, [responses EXCEPT ![i].text = e.text], i + 1)
         ELSE Getters(v, responses, i + 1)

\* program messages to a VirtualInstrument, as scpi.parse reads them
ErrLines ==
    { << Unit(<<"*","E","R","R","?">>, 0) >>,
      << Unit(<<"*","E","R","R">>, 0) >>,
      << Unit(<<"*","I","D","N","?">>, 0) >>,
      << Unit(<<":","N","O","N","E">>, 0) >>,
      << Unit(<<"*","I","D","N","?">>, 0), Unit(<<"*","E","R","R","?">>, 0) >>,
      << UnitAndRest(<<"*","E","R","R","?">>, 0) >>,
      << Unit(<<":","S","Y","S","T",":","T","I","M","E",":","R","E","S">>, 0) >>,
      << Unit(<<":","S","Y","S","T",":","T","I","M","E",":","R","E","S">>, 0), Unit(<<"*","I","D","N","?">>, 0) >> }

ErrStart ==
    /\ vi = NewVirtualInstrument
    /\ viRun = [n |-> 0, line |-> << >>, before |-> NewVirtualInstrument,
                escaped |-> FALSE, raised |-> "no"]

\* one line through process_messages of the VirtualInstrument
ErrProcess(line) ==
    /\ viRun.n < MaxErrLines
    /\ LET P == ProcessMessage([vi EXCEPT !.iqueue = << line >>])
           G == Getters(vi, P.run.responses, 1)
           out == IF JoinRaises(P.run.responses) THEN vi.oqueue
                  ELSE Append(vi.oqueue, Join(G.responses) \o << "\n" >>)
       IN  /\ vi' = [P.receiver EXCEPT !.error_index = G.v.error_index,
                                       !.oqueue = out]
           /\ viRun' = [n |-> viRun.n + 1, line |-> line, before |-> vi,
                        escaped |-> P.escaped, raised |-> P.run.raised]
    /\ UNCHANGED restOfErrors
(***************************************************************************)
(* Settable values and their hooks: Property.__call__, add_set_hook, and   *)
(* the current source and voltmeter of the OhmExperiment.                  *)
(***************************************************************************)
MaxHooks == 2

\* OhmExperiment(None, 1e3)
RESISTANCE == 1000

\* callbacks: OhmExperiment.sync, and one that only observes
Hooks == {"sync", "note"}

\* parsed arguments of a set command: a number with the suffix A, a symbol
ArgNumber(value) == [name |-> "number", value |-> value, symbol |-> ""]
ArgSymbol(symbol) == [name |-> "symbol", value |-> 0, symbol |-> symbol]
Args == { ArgNumber(0), ArgNumber(3), ArgNumber(11),
          ArgSymbol("ON"), ArgSymbol("OFF"), ArgSymbol("DEF") }

Stored(value) == [raised |-> FALSE, value |-> value]
SetterRaised(old) == [raised |-> TRUE, value |-> old]

\* CurrentSource.set_current: get_float_value(parsed_value, default=0,
\* min_max=(-10, 10), units='A')
SetCurrent(old, arg) ==
    IF arg.name = "symbol"
    THEN IF arg.symbol = "DEF" THEN Stored(0) ELSE SetterRaised(old)
    ELSE IF arg.value < -10 \/ arg.value > 10 THEN SetterRaised(old)
         ELSE Stored(arg.value)

\* BoolProperty.setter
SetOn(old, arg) ==
    IF arg.name = "number" THEN Stored(arg.value # 0)
    ELSE IF arg.symbol = "ON" THEN Stored(TRUE)
    ELSE IF arg.symbol = "OFF" THEN Stored(FALSE)
    ELSE SetterRaised(old)

Setter(p, old, arg) == IF p = "current" THEN SetCurrent(old, arg) ELSE SetOn(old, arg)

\* str of a natural number
DigitText == << "0", "1", "2", "3", "4", "5", "6", "7", "8", "9" >>
RECURSIVE Digits(_)
Digits(n) ==
    IF n < 10 THEN << DigitText[n + 1] >>
    ELSE Digits(n \div 10) \o << DigitText[(n % 10) + 1] >>

\* '{:.2f}'.format of a whole number
Format2(n) == Digits(n) \o <<".","0","0">>

\* the getters: CurrentSource.get_current, BoolProperty.getter
Getter(p, value) ==
    IF p = "current" THEN Format2(value)
    ELSE IF value THEN << "1" >> ELSE << "0" >>

\* OhmExperiment.sync
Sync(P, m) ==
    [m EXCEPT !.voltage = IF P["state"].value
                          THEN P["current"].value * RESISTANCE
                          ELSE 0]

\* Property.__call__: the hooks that run in a call
HooksToRunAlways(set_hooks, query, raised) == set_hooks
HooksToRun(set_hooks, query, raised) ==
    IF query \/ raised THEN << >> ELSE set_hooks

\* for hook in self.set_hooks: hook(*args), each hook seeing the values as
\* they are when it runs
RECURSIVE RunHooks(_, _, _, _)
RunHooks(hooks, i, P, st) ==
    IF i > Len(hooks) THEN st
    ELSE LET seen == [hook |-> hooks[i], current |-> P["current"].value,
                      state |-> P["state"].value, voltage |-> st.meter.voltage]
             m == IF hooks[i] = "sync" THEN Sync(P, st.meter) ELSE st.meter
         IN  RunHooks(hooks, i + 1, P,
                      [meter |-> m, events |-> Append(st.events, seen)])

NoCall == [kind |-> "none", p |-> "", arg |-> ArgSymbol(""), text |-> << >>,
           events |-> << >>, hooks |-> << >>,
           before |-> [current |-> 0, state |-> FALSE, voltage |-> 0]]

\* CurrentSource.reset, Voltmeter.reset, and OhmExperiment.__init__:
\* add_hook(self.sync) on the current source, for each of its values
HookStart ==
    /\ props = [p \in {"current", "state"} |->
                  [value |-> IF p = "current" THEN 0 ELSE FALSE,
                   set_hooks |-> << "sync" >>]]
    /\ meter = [voltage |-> 0]
    /\ lastCall = NoCall

Before == [current |-> props["current"].value, state |-> props["state"].value,
           voltage |-> meter.voltage]

\* Property.add_set_hook
AddSetHook(p, h) ==
    /\ Len(props[p].set_hooks) < MaxHooks
    /\ props' = [props EXCEPT ![p].set_hooks = Append(@, h)]
    /\ UNCHANGED << meter, lastCall >>
    /\ UNCHANGED restOfHooks

\* Property.__call__(query, arg)
PropertyCall(p, query, arg) ==
    LET r  == IF query THEN Stored(props[p].value)
              ELSE Setter(p, props[p].value, arg)
        P  == [props EXCEPT ![p].value = r.value]
        st == RunHooks(HooksToRun(props[p].set_hooks, query, r.raised), 1, P,
                       [meter |-> meter, events |-> << >>])
    IN  /\ props' = P
        /\ meter' = st.meter
        /\ lastCall' = [kind |-> IF query THEN "query"
                                 ELSE IF r.raised THEN "raised" ELSE "set",
                        p |-> p, arg |-> arg,
                        text |-> IF query THEN Getter(p, props[p].value) ELSE << >>,
                        events |-> st.events, hooks |-> props[p].set_hooks,
                        before |-> Before]
        /\ UNCHANGED restOfHooks

\* Voltmeter.get_voltage
VoltQuery ==
    /\ lastCall' = [NoCall EXCEPT !.kind = "read", !.p = "voltage",
                                  !.text = Format2(meter.voltage),
                                  !.before = Before]
    /\ UNCHANGED << props, meter >>
    /\ UNCHANGED restOfHooks
(***************************************************************************)
(* Registrations of the set form and the query form of a header, of a      *)
(* header twice, and of patterns with optional parts.                      *)
(***************************************************************************)
MaxDefs == 3

\* tree[cmd] = value: add_command(cmd, value)
Value(cmd, text) ==
    [cmd |-> cmd, handler |-> Handler("gs", text), ignore_case |-> TRUE]

\* TestCommandTree.test_add and test_access, and headers registered twice
TestAddPatterns ==
    { Value(<<":","A",":","V",":","K">>, <<"3">>), Value(<<":","A",":","V",":","K","?">>, <<"4">>),
      Value(<<":","A",":","Q",":","K">>, <<"3","3">>), Value(<<":","B">>, <<"8">>),
      Value(<<"[",":","B","]",":","R","?">>, <<"7">>), Value(<<"*","I","D","N","?">>, <<"M","a","r","y">>),
      Value(<<":","A",":","V",":","K">>, <<"5">>), Value(<<"*","I","D","N","?">>, <<"B","o","b">>),
      Value(<<"[",":","S","E","N","S","E","[","1","]","[","[",":","D","C","]",":","Q","U","[","I","C","K","]","]","]",":","[","T","]","[","H","]","E","N","k","[",":","P","]">>, <<"7","7">>) }

RegStart ==
    /\ registry = EmptyTree
    /\ defined = {}
    /\ regCall = [n |-> 0, p |-> Value(<< >>, << >>), err |-> FALSE,
                  before |-> EmptyTree]

\* one add_command call
Define(p) ==
    /\ regCall.n < MaxDefs
    /\ LET A == AddCommand(registry, p.cmd, p.handler, p.ignore_case)
       IN  /\ registry' = A.tree
           /\ defined' = IF A.err THEN defined ELSE defined \cup {p}
           /\ regCall' = [n |-> regCall.n + 1, p |-> p, err |-> A.err,
                          before |-> registry]
    /\ UNCHANGED restOfRegistry

(***************************************************************************)
(* The value resolvers: get_float_value, FloatProperty.setter and the      *)
(* double properties of the AMI420.  A float is m * 10^e / 60^s, or one of *)
(* inf, -inf, nan; the factors of the prefixes and of the units are given  *)
(* by their powers of ten, and by s = 1 for a rate per minute.             *)
(***************************************************************************)
MaxSets == 2

Dec(m, e) == [kind |-> "num", m |-> m, e |-> e, s |-> 0]
Inf == [kind |-> "inf", m |-> 0, e |-> 0, s |-> 0]
NInf == [kind |-> "ninf", m |-> 0, e |-> 0, s |-> 0]
NaN == [kind |-> "nan", m |-> 0, e |-> 0, s |-> 0]

RECURSIVE Pow10(_)
Pow10(n) == IF n <= 0 THEN 1 ELSE 10 * Pow10(n - 1)

Pow60(n) == IF n <= 0 THEN 1 ELSE 60

\* a < b for two numbers whose mantissas, brought to the same power of 60,
\* are below 10^MaxDigits
MaxDigits == 5
LtDec(a, b) ==
    LET d == a.e - b.e
        am == a.m * Pow60(b.s - a.s)
        bm == b.m * Pow60(a.s - b.s)
    IN  IF d >= 0
        THEN IF d > MaxDigits
             THEN IF am = 0 THEN 0 < bm ELSE am < 0
             ELSE am * Pow10(d) < bm
        ELSE IF -d > MaxDigits
             THEN IF bm = 0 THEN am < 0 ELSE bm > 0
             ELSE am < bm * Pow10(-d)

\* the comparison of two floats; every comparison with nan is false
Lt(a, b) ==
    CASE a.kind = "nan" \/ b.kind = "nan" -> FALSE
      [] a.kind = "inf" -> FALSE
      [] b.kind = "ninf" -> FALSE
      [] a.kind = "ninf" -> TRUE
      [] b.kind = "inf" -> TRUE
      [] OTHER -> LtDec(a, b)

Gt(a, b) == Lt(b, a)
Same(a, b) == a.kind = b.kind /\ (a.kind = "num" => ~LtDec(a, b) /\ ~LtDec(b, a))

\* value * factor, the factor a power of ten, and value * 60^(-per)
Scaled(value, exp) == [value EXCEPT !.e = @ + exp]
PerMinute(value, per) == [value EXCEPT !.s = @ + per]

SI_prefixes ==
    (<<"E","X">> :> 18) @@ (<<"P","E">> :> 15) @@ (<<"T">> :> 12) @@ (<<"G">> :> 9) @@
    (<<"M","A">> :> 6) @@ (<<"K">> :> 3) @@ (<<"M">> :> -3) @@ (<<"U">> :> -6) @@
    (<<"N">> :> -9) @@ (<<"P">> :> -12) @@ (<<"F">> :> -15) @@ (<<"A">> :> -18)

EndsWith(s, t) ==
    Len(t) <= Len(s) /\ SubSeq(s, Len(s) - Len(t) + 1, Len(s)) = t

\* s[:-n]
DropLast(s, n) == IF n = 0 THEN << >> ELSE SubSeq(s, 1, Len(s) - n)

\* the argument of a command, as scpi.parse reads it
SymbolValue(symbol) == [name |-> "symbol", symbol |-> symbol, value |-> 0,
                        suffix |-> << >>]
NumberValue(value, suffix) == [name |-> "number", symbol |-> << >>,
                               value |-> value, suffix |-> suffix]

\* the units argument of get_float_value: None, a str, or a dict of units
\* (in the order of its keys) that may hold a resolver under None
NoUnits == [kind |-> "None", items |-> << >>, none |-> FALSE, native |-> 0,
            per |-> 0]
StrUnit(unit) == [kind |-> "str", items |-> << <<unit, 0, 0>> >>, none |-> FALSE,
                  native |-> 0, per |-> 0]
DictUnits(items, none, native) == [kind |-> "dict", items |-> items,
                                   none |-> none, native |-> native, per |-> 0]

\* default=None
NoDefault == [kind |-> "None", m |-> 0, e |-> 0, s |-> 0]

FloatReturned(value) == [raised |-> "", value |-> value]
FloatRaised(error) == [raised |-> error, value |-> NaN]

\* the loop of get_float_value over the units: the factor of the first unit
\* that ends the suffix with a known prefix or with none before it
RECURSIVE UnitFactor(_, _, _)
UnitFactor(suffix, items, i) ==
    IF i > Len(items) THEN [found |-> FALSE, exp |-> 0, per |-> 0]
    ELSE LET unit == items[i][1]
             prefix == DropLast(suffix, Len(unit))
         IN  IF EndsWith(suffix, Upper(unit))
             THEN IF prefix # << >>
                  THEN IF prefix \in DOMAIN SI_prefixes
                       THEN [found |-> TRUE, exp |-> SI_prefixes[prefix] + items[i][2],
                             per |-> items[i][3]]
                       ELSE UnitFactor(suffix, items, i + 1)
                  ELSE [found |-> TRUE, exp |-> items[i][2], per |-> items[i][3]]
             ELSE UnitFactor(suffix, items, i + 1)

InRange(value, min_max) == ~Lt(value, min_max[1]) /\ ~Gt(value, min_max[2])

get_float_value(parse_value, min_max, default, units) ==
    LET vmin == min_max[1]
        vmax == min_max[2]
        suffix == Upper(parse_value.suffix)
        F == UnitFactor(suffix, units.items, 1)
        Checked(value) == IF Lt(value, vmin) \/ Gt(value, vmax)
                          THEN FloatRaised("OutOfRangeError")
                          ELSE FloatReturned(value)
    IN  IF parse_value.name = "symbol"
        THEN CASE parse_value.symbol \in {<<"M","A","X">>, <<"M","A","X","I","M","U","M">>} -> FloatReturned(vmin)
               [] parse_value.symbol \in {<<"M","I","N">>, <<"M","I","N","I","M","U","M">>} -> FloatReturned(vmax)
               [] parse_value.symbol \in {<<"D","E","F">>, <<"D","E","F","A","U","L","T">>} ->
                      IF default = NoDefault THEN FloatRaised("InvalidArgumentError")
                      ELSE FloatReturned(default)
               [] OTHER -> FloatRaised("InvalidArgumentError")
        ELSE IF suffix # << >>
             THEN IF units.kind = "None" THEN FloatRaised("InvalidArgumentError")
                  ELSE IF F.found
                       THEN Checked(PerMinute(Scaled(Dec(parse_value.value, 0), F.exp),
                                              F.per))
                       ELSE FloatRaised("InvalidArgumentError")
             ELSE IF units.kind = "dict"
                  THEN IF units.none
                       THEN Checked(PerMinute(Scaled(Dec(parse_value.value, 0),
                                                     units.native), units.per))
                       ELSE FloatRaised("KeyError")
                  ELSE Checked(Dec(parse_value.value, 0))

\* a FloatProperty: its unit, min_max (False or a pair), steppable, step,
\* default_value and value
NewFloatProperty(unit, min_max, steppable, default_value) ==
    [unit |-> Upper(unit), min_max |-> min_max, steppable |-> steppable,
     step |-> Dec(0, 0), default_value |-> default_value, value |-> default_value]

NoBounds == << >>

\* value + step and value - step, the step being 0
Stepped(value, step) == value

\* the clamp that ends FloatProperty.setter
Clamped(value, min_max) ==
    IF min_max # NoBounds
    THEN IF Lt(value, min_max[1]) THEN min_max[1]
         ELSE IF Gt(value, min_max[2]) THEN min_max[2]
         ELSE value
    ELSE value

\* FloatProperty.setter: the property after the call, and what it raised
FloatSetter(self, parse_value) ==
    LET Assigned(value) == [prop |-> [self EXCEPT !.value = Clamped(value, self.min_max)],
                          raised |-> ""]
        Raised(error) == [prop |-> self, raised |-> error]
        symbol == parse_value.symbol
        suffix == parse_value.suffix
        prefix == DropLast(suffix, Len(self.unit))
        number == Dec(parse_value.value, 0)
    IN  IF parse_value.name = "symbol"
        THEN CASE symbol \in {<<"M","A","X">>, <<"M","A","X","I","M","U","M">>} ->
                      IF self.min_max # NoBounds THEN Assigned(self.min_max[2])
                      ELSE Raised("ProtocolError")
               [] symbol \in {<<"M","I","N">>, <<"M","I","N","I","M","U","M">>} ->
                      IF self.min_max # NoBounds THEN Assigned(self.min_max[1])
                      ELSE Raised("ProtocolError")
               [] symbol = <<"U","P">> ->
                      IF self.steppable THEN Assigned(Stepped(self.value, self.step))
                      ELSE Raised("ProtocolError")
               [] symbol = <<"D","O","W","N">> ->
                      IF self.steppable THEN Assigned(Stepped(self.value, self.step))
                      ELSE Raised("ProtocolError")
               [] symbol \in {<<"D","E","F">>, <<"D","E","F","A","U","L","T">>} -> Assigned(self.default_value)
               [] symbol \in {<<"I","N","F">>, <<"I","N","F","I","N","I","T","Y">>} -> Assigned(Inf)
               [] symbol \in {<<"N","I","N","F">>, <<"N","I","N","F","I","N","I","T","Y">>} -> Assigned(NInf)
               [] symbol = <<"N","A","N">> -> Assigned(NaN)
               [] OTHER -> Raised("ProtocolError")
        ELSE IF suffix # << >> /\ EndsWith(suffix, self.unit) /\ prefix # << >>
             THEN IF suffix \in {<<"M","O","H","M">>, <<"M","H","Z">>} THEN Assigned(Scaled(number, 6))
                  ELSE IF prefix \in DOMAIN SI_prefixes
                       THEN Assigned(Scaled(number, SI_prefixes[prefix]))
                       ELSE Raised("KeyError")
             ELSE Assigned(number)

AmiGetFloatValueBare(parse_value, min_max, units) ==
    get_float_value(parse_value, min_max, NoDefault, units)

\* AMI420.get_float_value: the errors of get_float_value as ProtocolErrors
AmiGetFloatValue(parse_value, min_max, units) ==
    LET r == get_float_value(parse_value, min_max, NoDefault, units)
    IN  CASE r.raised = "OutOfRangeError" -> FloatRaised("-105,\"Out of range\"")
          [] r.raised = "InvalidArgumentError" -> FloatRaised("-102,\"Invalid argument\"")
          [] OTHER -> r

\* the double properties of the AMI420 that add_dblproperty declares with
\* constant bounds: name, default, min_max, units
DblProperties ==
    { [name |-> "stability", default |-> Dec(0, 0),
       min_max |-> << Dec(0, 0), Dec(100, 0) >>, units |-> NoUnits],
      [name |-> "current_limit", default |-> Dec(100, 0),
       min_max |-> << Dec(0, 0), Dec(100, 0) >>, units |-> StrUnit(<<"A">>)] }

NewAMI420 ==
    [stability |-> Dec(0, 0), current_limit |-> Dec(100, 0),
     field_target |-> Dec(0, 0), field_rate |-> Dec(0, 0),
     field_units |-> FALSE, ramp_rate_units |-> FALSE,
     error_log |-> << >>, oqueue |-> << >>, escaped |-> FALSE]

\* the symbols and the numbers that the commands carry
ValueSymbols == { <<"M","A","X">>, <<"M","A","X","I","M","U","M">>, <<"M","I","N">>, <<"M","I","N","I","M","U","M">>, <<"D","E","F">>, <<"U","P">>,
             <<"D","O","W","N">>, <<"I","N","F">>, <<"N","I","N","F">>, <<"N","A","N">>, <<"F","O","O">> }
Numbers == { -7, 3, 200 }
Suffixes == { << >>, <<"A">>, <<"M","A">>, <<"K","A">>, <<"V">>, <<"X","A">>, <<"m","a">> }
ParseValues ==
    { SymbolValue(s) : s \in ValueSymbols }
        \cup { NumberValue(n, x) : n \in Numbers, x \in Suffixes }

BoundsPairs == { << Dec(-2, 0), Dec(5, 0) >>, << Dec(0, 0), Dec(100, 0) >> }

\* the keyword arguments of the calls of get_float_value: min_max, default
\* and units
ResolverArgs ==
    { [min_max |-> << Dec(-2, 0), Dec(5, 0) >>, default |-> NoDefault,
       units |-> NoUnits],
      [min_max |-> << Dec(-2, 0), Dec(5, 0) >>, default |-> Dec(1, 0),
       units |-> StrUnit(<<"A">>)],
      [min_max |-> << Dec(0, 0), Dec(100, 0) >>, default |-> NoDefault,
       units |-> DictUnits(<< << <<"A">>, 0, 0 >>, << <<"V">>, 1, 0 >> >>, TRUE, -1)],
      [min_max |-> << Dec(0, 0), Dec(100, 0) >>, default |-> Dec(1, 0),
       units |-> DictUnits(<< << <<"V">>, 0, 0 >>, << <<"m","A">>, -3, 0 >> >>, FALSE, 0)] }

NoValCall ==
    [n |-> 0, fn |-> "", arg |-> SymbolValue(<< >>),
     min_max |-> NoBounds, default |-> NoDefault, units |-> NoUnits,
     out |-> FloatRaised(""), before |-> Dec(0, 0), name |-> "", nlog |-> 0]

ValStart ==
    /\ fprop = NewFloatProperty(<<"A">>, NoBounds, FALSE, Dec(0, 0))
    /\ ami = NewAMI420
    /\ valCall = NoValCall

\* FloatProperty(unit, min_max=..., steppable=...)
Construct(min_max, steppable) ==
    /\ valCall.n = 0
    /\ fprop' = NewFloatProperty(<<"A">>, min_max, steppable, Dec(0, 0))
    /\ valCall' = [NoValCall EXCEPT !.fn = "FloatProperty", !.min_max = min_max]
    /\ UNCHANGED ami
    /\ UNCHANGED restOfValues

\* a call of get_float_value
ResolveFloat(parse_value, min_max, default, units) ==
    /\ valCall.n < MaxSets
    /\ valCall' = [n |-> valCall.n + 1, fn |-> "get_float_value",
                   arg |-> parse_value, min_max |-> min_max,
                   default |-> default, units |-> units,
                   out |-> get_float_value(parse_value, min_max, default, units),
                   before |-> Dec(0, 0), name |-> "", nlog |-> 0]
    /\ UNCHANGED << fprop, ami >>
    /\ UNCHANGED restOfValues

\* a call of the setter of the FloatProperty
SetFloat(parse_value) ==
    /\ valCall.n < MaxSets
    /\ LET r == FloatSetter(fprop, parse_value)
       IN  /\ fprop' = r.prop
           /\ valCall' = [n |-> valCall.n + 1, fn |-> "setter",
                          arg |-> parse_value, min_max |-> fprop.min_max,
                          default |-> fprop.default_value, units |-> NoUnits,
                          out |-> [raised |-> r.raised, value |-> r.prop.value],
                          before |-> fprop.value, name |-> "", nlog |-> 0]
    /\ UNCHANGED ami
    /\ UNCHANGED restOfValues

\* process_messages of the AMI420 on the line ':CONFigure<command> <value>' of
\* a double property: write_handler stores what get_float_value returns; a
\* ProtocolError is logged and ends the line with an empty answer; the None
\* that the handler returns does not join, and the TypeError leaves
\* process_messages
Configure(p, parse_value) ==
    /\ valCall.n < MaxSets
    /\ LET r == AmiGetFloatValue(parse_value, p.min_max, p.units)
       IN  /\ ami' = CASE r.raised = "" ->
                            [ami EXCEPT ![p.name] = r.value, !.escaped = TRUE]
                       [] r.raised = "KeyError" -> [ami EXCEPT !.escaped = TRUE]
                       [] OTHER -> [ami EXCEPT !.error_log = Append(@, r.raised),
                                               !.oqueue = Append(@, << "\n" >>)]
           /\ valCall' = [n |-> valCall.n + 1, fn |-> "write_handler",
                          arg |-> parse_value, min_max |-> p.min_max,
                          default |-> NoDefault, units |-> p.units,
                          out |-> r, before |-> ami[p.name], name |-> p.name,
                          nlog |-> Len(ami.error_log)]
    /\ UNCHANGED fprop
    /\ UNCHANGED restOfValues

(***************************************************************************)
(* The state of the power supply and its query.                            *)
(***************************************************************************)
\* AMI420_RampThread.State
State ==
    ("RAMPING" :> 1) @@ ("HOLDING" :> 2) @@ ("PAUSED" :> 3) @@
    ("MANUAL_UP_RAMPING" :> 4) @@ ("MANUAL_DOWN_RAMPING" :> 5) @@
    ("ZEROING" :> 6) @@ ("QUENCHED" :> 7) @@ ("HEATING" :> 8) @@ ("AT_ZERO" :> 9)

\* add_readonly(':STATE', lambda: str(int(self.ramp_thread.state)))
StatePatterns == << Pattern(<<":","S","T","A","T","E">>, "readonly", FALSE) >>

StateTree == TreeOf(StatePatterns)

\* the headers of the queries: test_ramp sends ':STATE?'
StateHeaders == { <<":","S","T","A","T","E","?">>, <<":","S","T","A","T","E">> }

NoAnswer == [asked |-> FALSE, header |-> << >>, state |-> "AT_ZERO",
             out |-> "no", text |-> << >>, call |-> NoValCall,
             field_units |-> FALSE, ramp_rate_units |-> FALSE]

QueryStart == answer = NoAnswer

\* tuple(self.magnet.process(header)): the unit is found and its handler
\* called with command.query, or process raises
StateQuery(header) ==
    /\ LET S == Process(StateTree, << Unit(header, 0) >>, 1, ProcessStart)
           r == S.responses[1]
       IN  answer' = [NoAnswer EXCEPT
                         !.asked = TRUE, !.header = header,
                         !.state = ramp_thread.state,
                         !.out = IF S.raised # "no" THEN S.raised ELSE r.out,
                         !.text = IF S.raised = "no" /\ r.out = "value"
                                  THEN Digits(State[ramp_thread.state])
                                  ELSE << >>]
    /\ UNCHANGED restOfQuery
    /\ UNCHANGED workerVars

(***************************************************************************)
(* The units of the AMI420: the field in kilogauss or tesla, the rates per *)
(* second or per minute.                                                   *)
(***************************************************************************)
\* AMI420(1.5, 7) of the tests: min_max = (-100 * coil_constant, 100 * coil_constant)
FieldBounds == << Dec(-150, 0), Dec(150, 0) >>
RateBounds == << Dec(0, 0), Dec(1000, 0) >>

\* field_unit_multiplier: 1 for tesla, 0.1 for kilogauss, as a power of ten
field_unit_multiplier(self) == IF self.field_units THEN 0 ELSE -1
\* ramp_unit_multiplier: 1 per second, 1/60 per minute, as a power of 1/60
ramp_unit_multiplier(self) == IF self.ramp_rate_units THEN 1 ELSE 0

\* the units of field_target and of set_field_rate
FieldUnits(self) ==
    [kind |-> "dict", items |-> << << <<"T">>, 0, 0 >>, << <<"G">>, -4, 0 >> >>,
     none |-> TRUE, native |-> field_unit_multiplier(self), per |-> 0]
RateUnits(self) ==
    [kind |-> "dict",
     items |-> << << <<"G","/","s">>, -4, 0 >>, << <<"G","/","m","i","n">>, -4, 1 >>,
                  << <<"T","/","s">>, 0, 0 >>, << <<"T","/","m","i","n">>, 0, 1 >> >>,
     none |-> TRUE, native |-> field_unit_multiplier(self),
     per |-> ramp_unit_multiplier(self)]

\* the arguments of the commands of test_units
UnitValues == { SymbolValue(<<"O","N">>), NumberValue(0, << >>), NumberValue(1, << >>) }
FieldValues == { NumberValue(1, << >>), NumberValue(2, <<"K","G">>), NumberValue(2, <<"T">>),
                 NumberValue(200, << >>) }
RateValues == { NumberValue(1, << >>), NumberValue(2, <<"T","/","M","I","N">>) }

\* add_dblboolproperty.write_handler
BoolWrite(parse_value, default) ==
    IF parse_value.name = "symbol"
    THEN CASE parse_value.symbol = <<"O","N">> -> [raised |-> FALSE, value |-> TRUE]
           [] parse_value.symbol = <<"O","F","F">> -> [raised |-> FALSE, value |-> FALSE]
           [] parse_value.symbol \in {<<"D","E","F">>, <<"D","E","F","A","U","L","T">>} ->
                  [raised |-> FALSE, value |-> default]
           [] OTHER -> [raised |-> TRUE, value |-> default]
    ELSE IF parse_value.value > 1 \/ parse_value.value < 0
         THEN [raised |-> TRUE, value |-> default]
         ELSE [raised |-> FALSE, value |-> parse_value.value # 0]

\* process_messages on 'CONF:FIELD:UNITS <value>' or
\* 'CONF:RAMP:RATE:UNITS <value>': a ProtocolError is logged, and the None of
\* the handler leaves process_messages as a TypeError
UnitsWrite(name, parse_value) ==
    /\ LET r == BoolWrite(parse_value, FALSE)
       IN  ami' = IF r.raised
                  THEN [ami EXCEPT !.error_log = Append(@, "-103,\"Non-boolean argument\"")]
                  ELSE [ami EXCEPT ![name] = r.value, !.escaped = TRUE]
    /\ UNCHANGED << fprop, valCall >>
    /\ UNCHANGED restOfValues

\* process_messages on 'CONF:FIELD:PROG <value>' (write_handler of
\* field_target) or 'CONF:RAMP:RATE:FIELD <value>' (set_field_rate)
FieldWrite(name, parse_value) ==
    /\ valCall.n < MaxSets
    /\ LET min_max == IF name = "field_target" THEN FieldBounds ELSE RateBounds
           units == IF name = "field_target" THEN FieldUnits(ami) ELSE RateUnits(ami)
           r == AmiGetFloatValue(parse_value, min_max, units)
       IN  /\ ami' = IF r.raised = ""
                     THEN [ami EXCEPT ![name] = r.value, !.escaped = TRUE]
                     ELSE [ami EXCEPT !.error_log = Append(@, r.raised)]
           /\ valCall' = [n |-> valCall.n + 1, fn |-> "write_handler",
                          arg |-> parse_value, min_max |-> min_max,
                          default |-> NoDefault, units |-> units,
                          out |-> r, before |-> ami[name], name |-> name,
                          nlog |-> Len(ami.error_log)]
    /\ UNCHANGED fprop
    /\ UNCHANGED restOfValues

\* '{:.4f}'.format(value): the digits of value * 10^4, rounded
RECURSIVE Pad(_, _)
Pad(text, n) == IF Len(text) >= n THEN text ELSE Pad(<< "0" >> \o text, n)
Rounded(num, den) == (2 * num + den) \div (2 * den)
Format4(value) ==
    LET a == Abs(value.m)
        num == a * Pow10(value.e + 4) * Pow60(-value.s)
        den == Pow10(-(value.e + 4)) * Pow60(value.s)
        k == Rounded(num, den)
    IN  (IF value.m < 0 /\ k > 0 THEN << "-" >> ELSE << >>)
        \o Digits(k \div 10000) \o << "." >> \o Pad(Digits(k % 10000), 4)

\* read_handler of field_target and get_field_rate, called for a query
ReadField(self, name) ==
    IF name = "field_target"
    THEN Format4(Scaled(self.field_target, -field_unit_multiplier(self)))
    ELSE Format4(PerMinute(Scaled(self.field_rate, -field_unit_multiplier(self)),
                           -ramp_unit_multiplier(self)))

FieldPatterns == << Pattern(<<":","F","I","E","L","D",":","P","R","O","G","r","a","m">>, "dblread", FALSE),
                    Pattern(<<":","R","A","M","P",":","R","A","T","E",":","F","I","E","L","d">>, "readonly", FALSE) >>
FieldTree == TreeOf(FieldPatterns)

\* the queries of test_units, and the same headers without '?'
FieldHeaders == { <<":","F","I","E","L","D",":","P","R","O","G","?">>, <<":","R","A","M","P",":","R","A","T","E",":","F","I","E","L","D","?">>, <<":","F","I","E","L","D",":","P","R","O","G">>,
                  <<":","R","A","M","P",":","R","A","T","E",":","F","I","E","L","D">> }
Queried(header) ==
    IF header \in { <<":","F","I","E","L","D",":","P","R","O","G","?">>, <<":","F","I","E","L","D",":","P","R","O","G">> } THEN "field_target"
    ELSE "field_rate"

\* tuple(self.magnet.process(header)) for a query of the field
FieldQuery(header) ==
    /\ LET S == Process(FieldTree, << Unit(header, 0) >>, 1, ProcessStart)
           r == S.responses[1]
       IN  answer' = [NoAnswer EXCEPT
                         !.asked = TRUE, !.header = header,
                         !.out = IF S.raised # "no" THEN S.raised ELSE r.out,
                         !.text = IF S.raised = "no" /\ r.out = "value"
                                  THEN ReadField(ami, Queried(header))
                                  ELSE << >>,
                         !.call = valCall,
                         !.field_units = ami.field_units,
                         !.ramp_rate_units = ami.ramp_rate_units]
    /\ UNCHANGED workerVars
    /\ UNCHANGED restOfQuery

(***************************************************************************)
(* scpi.program_message: a delimitedList of (program_message_unit or       *)
(* SkipTo(StringEnd)) with the delimiter ';'.  The text of a message is    *)
(* given by its units between the separators, an empty unit having the     *)
(* empty header.  Where no program_message_unit matches, the alternative   *)
(* SkipTo(StringEnd) takes all the text that is left, separators and later *)
(* units included, as one str item, which ends the list.                   *)
(***************************************************************************)
MaxMessages == 2

EmptyUnit == Unit(<< >>, 0)

RECURSIVE delimitedList(_, _)
delimitedList(units, i) ==
    IF i > Len(units) THEN << >>
    ELSE IF units[i].header = << >> THEN << ErrorText >>
    ELSE << units[i] >> \o delimitedList(units, i + 1)

program_message(units) == delimitedList(units, 1)

\* program messages as texts: 'FREQ:STAR 1;;STOP 1', 'FREQ:STAR 1;',
\* ';FREQ:STAR 1', '', ':BAND 1;;:BAND 1;;POW:STOP 1' and messages without
\* an empty unit
Messages ==
    { << Unit(<<"F","R","E","Q",":","S","T","A","R">>, 1), EmptyUnit, Unit(<<"S","T","O","P">>, 1) >>,
      << Unit(<<"F","R","E","Q",":","S","T","A","R">>, 1), EmptyUnit >>,
      << EmptyUnit, Unit(<<"F","R","E","Q",":","S","T","A","R">>, 1) >>,
      << EmptyUnit >>,
      << Unit(<<":","B","A","N","D">>, 1), EmptyUnit, Unit(<<":","B","A","N","D">>, 1), EmptyUnit, Unit(<<"P","O","W",":","S","T","O","P">>, 1) >>,
      << Unit(<<"F","R","E","Q",":","S","T","A","R">>, 1), Unit(<<"S","T","O","P">>, 1) >>,
      << Unit(<<":","B","A","N","D">>, 1) >>,
      << Unit(<<"p","o","w",":","s","t","a","r">>, 1), Unit(<<"s","t","o","p">>, 0), Unit(<<":","b","a","n","d">>, 0) >> }

\* a client thread: instrument.iqueue.put(text); the text is parsed when
\* process_messages takes it from the queue
PutMessage(units) ==
    /\ nlines < MaxMessages
    /\ receiver' = [receiver EXCEPT !.iqueue = Append(@, program_message(units))]
    /\ nlines' = nlines + 1
    /\ UNCHANGED << escaped, nregs, fixture, walked, anyFailed, lastReg, lastRun >>
    /\ UNCHANGED restOfTree

\* program messages of a set command, of a set command before an unknown
\* header, and of a query-only header without the query mark
SetMessages ==
    { << Unit(<<":","R","A","M","P">>, 0) >>,
      << Unit(<<":","R","A","M","P">>, 0), Unit(<<":","N","O","N","E">>, 0) >>,
      << Unit(<<":","P","O","W",":","L","E","V">>, 0) >>,
      << Unit(<<":","R","A","M","P">>, 1) >> }

(***************************************************************************)
(* The keys of one mnemonic: scpi.format_mnemonic_pr, which                *)
(* parse_variative_header applies to each mnemonic of a pattern, and the   *)
(* keys add_command puts in an empty dictionary for the same mnemonic.     *)
(***************************************************************************)
MaxToken == 5

\* (necessary, contents) as variative_mnemonic gives it for a plain word
Necessary(contents) == [necessary |-> TRUE, contents |-> contents]
Variative(contents) == [necessary |-> FALSE, contents |-> contents]

\* the loop over the pieces of the mnemonic (lines 205-210)
RECURSIVE Variants(_, _, _)
Variants(parsed, i, variants) ==
    IF i > Len(parsed) THEN variants
    ELSE LET more == {v \o parsed[i].contents : v \in variants}
         IN  Variants(parsed, i + 1,
                      IF parsed[i].necessary THEN more ELSE variants \cup more)

\* the keys one variant adds (lines 213-226)
VariantKeys(v, ignore_case) ==
    LET long_v == Upper(v)
    IN  {long_v} \cup
        (IF ignore_case
         THEN IF Len(long_v) > 3 /\ long_v[4] \in {"A","E","I","O","U","Y"}
              THEN {Prefix(long_v, 3)}
              ELSE IF Len(long_v) > 4 THEN {Prefix(long_v, 4)} ELSE {}
         ELSE IF long_v # v /\ MatchCaps(v) # << >> THEN {MatchCaps(v)} ELSE {})

format_mnemonic_pr(parsed, ignore_case) ==
    LET variants == Variants(parsed, 1, {<< >>})
    IN  [keys |-> UNION {VariantKeys(v, ignore_case) : v \in variants},
         err  |-> \E v \in variants :
                     ~ignore_case /\ Upper(v) # v /\ MatchCaps(v) = << >>]

\* add_command(':' + tkn, handler, ignore_case) on a new receiver
AddedKeys(tkn, ignore_case) ==
    LET A == AddCommand(EmptyTree, << ":" >> \o tkn, Handler("gs", tkn), ignore_case)
    IN  [keys |-> DOMAIN A.tree[Root].keys, err |-> A.err]

\* mnemonics: every word of up to MaxToken of these characters, and the
\* mnemonics of the tests
TokenChars == {"e", "E", "q", "Q"}
RECURSIVE Words(_)
Words(n) ==
    IF n = 0 THEN {<< >>}
    ELSE LET shorter == Words(n - 1)
         IN  shorter \cup {Append(w, c) : w \in shorter, c \in TokenChars}
Mnemonics == (Words(MaxToken) \ {<< >>})
            \cup { <<"v","o","l","u","m","e">>, <<"V","O","L","U","M","E">>, <<"F","R","e","q","u","e","n","c","y">>, <<"S","T","O","P">>, <<"S","E","N","S","E">>,
                   <<"C","O","N","F","i","g","u","r","e">>, <<"a","b","c","y">>, <<"a","1","_","e","b">> }

NoDerived == [applied |-> FALSE, tkn |-> << >>, ignore_case |-> TRUE,
              added |-> [keys |-> {}, err |-> FALSE],
              parsed |-> [keys |-> {}, err |-> FALSE]]

KeyStart == derived = NoDerived

\* one mnemonic given to both
Derive(tkn, ignore_case) ==
    /\ ~derived.applied
    /\ derived' = [applied |-> TRUE, tkn |-> tkn, ignore_case |-> ignore_case,
                   added |-> AddedKeys(tkn, ignore_case),
                   parsed |-> format_mnemonic_pr(<< Necessary(tkn) >>, ignore_case)]
    /\ UNCHANGED restOfKeys

(***************************************************************************)
(* The byte stream of one connection.                                      *)
(***************************************************************************)
MaxStream == 5

\* the line ending and the texts of two program messages
StreamSymbols == {"NL", "ramp1", "ramp2"}

StreamStart == sent = << >>

\* a client sends a byte on its connection
StreamSend(c, sym) ==
    /\ conns[c].state # "closed"
    /\ nsent < MaxStream
    /\ wire' = [wire EXCEPT ![c] = Append(@, Byte(c, sym))]
    /\ sent' = Append(sent, Byte(c, sym))
    /\ nsent' = nsent + 1
    /\ UNCHANGED << experiments, created, threads, instruments, instrulock, buffer,
                    shutdown_event, shutdownBy, listeners, conns, delivered >>
    /\ UNCHANGED restOfStream

(***************************************************************************)
(* The two-argument commands of the AMI420: CONF:RAMP:FIELD <field>,<rate> *)
(* and CONF:RAMP:CURR <current>,<rate>.                                    *)
(***************************************************************************)
\* value * self.coil_constant, for AMI420(1.5, 7)
TimesCoil(value) ==
    IF value.kind = "num" THEN [value EXCEPT !.m = @ * 15, !.e = @ - 1] ELSE value

\* AMI420.get_float_value with a default
AmiGetFloatDefault(parse_value, min_max, default, units) ==
    LET r == get_float_value(parse_value, min_max, default, units)
    IN  CASE r.raised = "OutOfRangeError" -> FloatRaised("-105,\"Out of range\"")
          [] r.raised = "InvalidArgumentError" -> FloatRaised("-102,\"Invalid argument\"")
          [] OTHER -> r

CurrentBounds == << Dec(-100, 0), Dec(100, 0) >>
CurrentRateUnits(self) ==
    [kind |-> "dict", items |-> << << <<"A","/","s">>, 0, 0 >>, << <<"A","/","m","i","n">>, 0, 1 >> >>,
     none |-> TRUE, native |-> 0, per |-> ramp_unit_multiplier(self)]

\* set_field_rate and set_current_rate: the object as the call leaves it
\* and the error it raised
set_field_rate(self, rate) ==
    LET r == AmiGetFloatValue(rate, RateBounds, RateUnits(self))
    IN  [self |-> IF r.raised = "" THEN [self EXCEPT !.field_rate = r.value] ELSE self,
         out |-> r]
set_current_rate(self, rate) ==
    LET r == AmiGetFloatValue(rate, RateBounds, CurrentRateUnits(self))
    IN  [self |-> IF r.raised = "" THEN [self EXCEPT !.field_rate = TimesCoil(r.value)] ELSE self,
         out |-> r]

\* set_field_ramp and set_current_ramp: the target is assigned, then the
\* rate setter is called
set_field_ramp(self, field, field_rate) ==
    LET t == AmiGetFloatDefault(field, FieldBounds, Dec(0, 0), FieldUnits(self))
    IN  IF t.raised # ""
        THEN [self |-> self, first |-> t, out |-> t]
        ELSE LET s == set_field_rate([self EXCEPT !.field_target = t.value], field_rate)
             IN  [self |-> s.self, first |-> t, out |-> s.out]
set_current_ramp(self, current, current_rate) ==
    LET t == AmiGetFloatDefault(current, CurrentBounds, Dec(0, 0), StrUnit(<<"A">>))
    IN  IF t.raised # ""
        THEN [self |-> self, first |-> t, out |-> t]
        ELSE LET s == set_current_rate([self EXCEPT !.field_target = TimesCoil(t.value)],
                                       current_rate)
             IN  [self |-> s.self, first |-> t, out |-> s.out]

\* the arguments of the two commands: in range, out of range, not a number
TargetValues == { NumberValue(1, << >>), NumberValue(2000, << >>), SymbolValue(<<"F","O","O">>) }
RampRateValues == { NumberValue(1, << >>), NumberValue(-1, << >>), SymbolValue(<<"F","O","O">>) }

\* process_messages on 'CONF:RAMP:FIELD a,b' or 'CONF:RAMP:CURR a,b': a
\* ProtocolError is logged, and the None of the handler leaves
\* process_messages as a TypeError
RampWrite(fn, a, b) ==
    /\ valCall.n < MaxSets
    /\ LET S == IF fn = "set_field_ramp" THEN set_field_ramp(ami, a, b)
                ELSE set_current_ramp(ami, a, b)
       IN  /\ ami' = IF S.out.raised = ""
                     THEN [S.self EXCEPT !.escaped = TRUE]
                     ELSE [S.self EXCEPT !.error_log = Append(@, S.out.raised)]
           /\ valCall' = [n |-> valCall.n + 1, fn |-> fn,
                          arg |-> a, min_max |-> FieldBounds,
                          default |-> Dec(0, 0), units |-> NoUnits,
                          out |-> S.out, before |-> ami.field_target, name |-> "field_target",
                          nlog |-> Len(ami.error_log), first |-> S.first]
    /\ UNCHANGED fprop
    /\ UNCHANGED restOfValues
(***************************************************************************)
(* The variables and the initial states.                                   *)
(***************************************************************************)
vars == << treeVars, serverVars, sessionVars, workerVars, errVars, hookVars, regVars, valVars, queryVars, keyVars, streamVars >>

\* the magnet of the instruments that are not power supplies, and of the
\* tests of the receiver and of the server
Unconfigured ==
    /\ magnet = NewMagnet(0, 0)
    /\ ramp_thread = NewRampThread("main")
    /\ caller = "idle"
    /\ cmds = << >>
    /\ watch = NoWatch

InitTree == TreeStart /\ ServerStart /\ SessionStart /\ Unconfigured /\ ErrStart /\ HookStart /\ RegStart /\ ValStart /\ QueryStart /\ KeyStart /\ StreamStart
InitServer == TreeStart /\ ServerStart /\ SessionStart /\ Unconfigured /\ ErrStart /\ HookStart /\ RegStart /\ ValStart /\ QueryStart /\ KeyStart /\ StreamStart
InitWorker == TreeStart /\ ServerStart /\ SessionStart /\ WorkerStart /\ ErrStart /\ HookStart /\ RegStart /\ ValStart /\ QueryStart /\ KeyStart /\ StreamStart
InitState == TreeStart /\ ServerStart /\ SessionStart /\ WorkerStart /\ ErrStart /\ HookStart /\ RegStart /\ ValStart /\ QueryStart /\ KeyStart /\ StreamStart
InitHooks == TreeStart /\ ServerStart /\ SessionStart /\ Unconfigured /\ ErrStart /\ HookStart /\ RegStart /\ ValStart /\ QueryStart /\ KeyStart /\ StreamStart
InitRegistry == TreeStart /\ ServerStart /\ SessionStart /\ Unconfigured /\ ErrStart /\ HookStart /\ RegStart /\ ValStart /\ QueryStart /\ KeyStart /\ StreamStart
InitValues == TreeStart /\ ServerStart /\ SessionStart /\ Unconfigured /\ ErrStart /\ HookStart /\ RegStart /\ ValStart /\ QueryStart /\ KeyStart /\ StreamStart
InitConfigure == TreeStart /\ ServerStart /\ SessionStart /\ Unconfigured /\ ErrStart /\ HookStart /\ RegStart /\ ValStart /\ QueryStart /\ KeyStart /\ StreamStart
InitTransport == TreeStart /\ ServerStart /\ SessionStart /\ Unconfigured /\ ErrStart /\ HookStart /\ RegStart /\ ValStart /\ QueryStart /\ KeyStart /\ StreamStart
InitUnits == TreeStart /\ ServerStart /\ SessionStart /\ Unconfigured /\ ErrStart /\ HookStart /\ RegStart /\ ValStart /\ QueryStart /\ KeyStart /\ StreamStart
InitKeys == TreeStart /\ ServerStart /\ SessionStart /\ Unconfigured /\ ErrStart /\ HookStart /\ RegStart /\ ValStart /\ QueryStart /\ KeyStart /\ StreamStart
InitErrors == TreeStart /\ ServerStart /\ SessionStart /\ Unconfigured /\ ErrStart /\ HookStart /\ RegStart /\ ValStart /\ QueryStart /\ KeyStart /\ StreamStart

\* the server with the power supply of the Experiment of one address: the
\* worker starts when the Experiment is created
WorkerUnstarted ==
    /\ magnet = NewMagnet(0, 0)
    /\ ramp_thread = NewRampThread("unstarted")
    /\ caller = "idle"
    /\ cmds = << >>
    /\ watch = NoWatch

InitStop == TreeStart /\ ServerStart /\ SessionStart /\ WorkerUnstarted /\ ErrStart /\ HookStart /\ RegStart /\ ValStart /\ QueryStart /\ KeyStart /\ StreamStart


(***************************************************************************)
(* Properties of the command tree and of message processing.               *)
(***************************************************************************)
Tree == receiver.commands
Run == lastRun.run
Tokens(header) == Split(header, ":")
IsGlobal(header) == Tokens(header)[1] = << >>
IsCommon(header) == ~IsGlobal(header) /\ Tokens(header)[1][1] = "*"
IsShorthand(header) == ~IsGlobal(header) /\ ~IsCommon(header)

\* the texts of the responses of the last line
Texts == [i \in 1..Len(Run.responses) |-> Run.responses[i].text]

\* the parent context after the first i units of a line, by the three rules
\* of the specification (a header that starts with ':' sets it to its own
\* tokens less the last, a common command keeps it, a shorthand header
\* sets it to parent + tokens less the last)
RECURSIVE ContextAfter(_, _)
ContextAfter(line, i) ==
    IF i = 0 THEN << >>
    ELSE LET h == line[i].header
             before == ContextAfter(line, i - 1)
         IN  IF line[i].str \/ h = << >> THEN before
             ELSE IF IsGlobal(h) THEN Front(Tail(Tokens(h)))
             ELSE IF IsCommon(h) THEN before
             ELSE Front(before \o Tokens(h))

\* the unit at index i of the last line was reached by process()
Reached(i) == lastRun.ran /\ i \in 1..Len(lastRun.line)
              /\ (Run.raised = "no" \/ i <= Run.at)
\* ... and its handler was called
Called(i) == \E k \in 1..Len(Run.trace) : Run.trace[k].index = i
EntryOf(i) == Run.trace[CHOOSE k \in 1..Len(Run.trace) : Run.trace[k].index = i]

LineFreqStarStop == << Unit(<<"F","R","E","Q",":","S","T","A","R">>, 1), Unit(<<"S","T","O","P">>, 1) >>
LineFreqStarSlewAuto == << Unit(<<"F","R","E","Q",":","S","T","A","R">>, 1), Unit(<<"S","L","E","W",":","A","U","T","O">>, 1) >>
LineFreqStartBand == << Unit(<<"F","R","E","Q",":","S","T","A","R","T">>, 1), Unit(<<"B","A","N","D">>, 1) >>
LineSlewAutoAuto == << Unit(<<"F","R","E","Q",":","S","T","A","R">>, 1), Unit(<<"S","L","E","W",":","A","U","T","O">>, 1), Unit(<<"A","U","T","O">>, 1) >>
LineFreqStarPowStop == << Unit(<<"F","R","E","Q",":","S","T","A","R">>, 1), Unit(<<"P","O","W",":","S","T","O","P">>, 1) >>
LineSlewAutoStop == << Unit(<<"F","R","E","Q",":","S","L","E","W",":","A","U","T","O">>, 1), Unit(<<"S","T","O","P">>, 1) >>
LineSlewAuto == << Unit(<<"F","R","E","Q",":","S","L","E","W">>, 1), Unit(<<"A","U","T","O">>, 1) >>
LineFreqStartRootBand == << Unit(<<"F","R","E","Q",":","S","T","A","R","T">>, 1), Unit(<<":","B","A","N","D">>, 1) >>
LineFreqStarRootFreqStop == << Unit(<<"F","R","E","Q",":","S","T","A","R">>, 1), Unit(<<":","F","R","E","Q",":","S","T","O","P">>, 1) >>
LinePowStarStopLev == << Unit(<<":","P","O","W",":","S","T","A","R">>, 1), Unit(<<"S","T","O","P">>, 0), Unit(<<"L","E","V">>, 0) >>
LineStarIdnStop == << Unit(<<"F","R","E","Q",":","S","T","A","R">>, 1), Unit(<<"*","I","D","N">>, 0), Unit(<<"S","T","O","P">>, 1) >>

Ran(line) == fixture /\ lastRun.ran /\ lastRun.line = line

\* C2: when the unit after k successful units fails with a ProtocolError,
\* process() has yielded the k responses, and process_messages puts them,
\* joined, on the output queue as the line of that message and logs the error
C2_PartialResponsesFlushed ==
    (lastRun.ran /\ Run.raised = "ProtocolError") =>
        /\ Len(Run.responses) = Run.at - 1
        /\ receiver.oqueue = Append(lastRun.before.oqueue, Join(Run.responses) \o << "\n" >>)
        /\ Len(receiver.error_log) = Len(lastRun.before.error_log) + 1

\* C3: a shorthand header is resolved from the root as parent + tokens, the
\* parent being the context the earlier headers of the message left, and
\* leaves parent + tokens less the last mnemonic as the context
C3_ShorthandRelativeToParent ==
    /\ \A i \in 1..Len(lastRun.line) :
          (Reached(i) /\ Called(i) /\ IsShorthand(lastRun.line[i].header)) =>
             LET path == ContextAfter(lastRun.line, i - 1) \o Tokens(lastRun.line[i].header)
             IN  /\ EntryOf(i).handler = Resolve(Tree, path)
                 /\ EntryOf(i).after = Front(path)
    /\ Ran(LineFreqStarStop) => Texts = << <<":","F","R","E","Q","U","E","N","C","Y",":","S","T","A","R","T">>, <<":","F","R","E","Q","U","E","N","C","Y",":","S","T","O","P">> >>
    /\ Ran(LineFreqStarSlewAuto) => Texts = << <<":","F","R","E","Q","U","E","N","C","Y",":","S","T","A","R","T">>, <<":","F","R","E","Q","U","E","N","C","Y",":","S","L","E","W",":","A","U","T","O">> >>
    /\ Ran(LineFreqStartBand) => Texts = << <<":","F","R","E","Q","U","E","N","C","Y",":","S","T","A","R","T">>, <<":","F","R","E","Q","U","E","N","C","Y",":","B","A","N","D","W","I","D","T","H">> >>
    /\ Ran(LineSlewAutoAuto) => Texts = << <<":","F","R","E","Q","U","E","N","C","Y",":","S","T","A","R","T">>, <<":","F","R","E","Q","U","E","N","C","Y",":","S","L","E","W",":","A","U","T","O">>,
                                           <<":","F","R","E","Q","U","E","N","C","Y",":","S","L","E","W",":","A","U","T","O">> >>

C3_Witness ==
    /\ Ran(LineFreqStartBand)
    /\ Resolve(Tree, << <<"B","A","N","D">> >>) # Absent
    /\ Len(Run.trace) = 2
    /\ Run.trace[2].handler.name = <<":","F","R","E","Q","U","E","N","C","Y",":","B","A","N","D","W","I","D","T","H">>
    /\ Run.trace[2].before = << <<"F","R","E","Q">> >>

\* C4: a shorthand header whose parent + tokens do not resolve fails with a
\* ProtocolError at that unit, also when its tokens alone resolve from the root
C4_ShorthandNeverFromRoot ==
    /\ \A i \in 1..Len(lastRun.line) :
          (Reached(i) /\ ~lastRun.line[i].str /\ IsShorthand(lastRun.line[i].header)
           /\ Resolve(Tree, ContextAfter(lastRun.line, i - 1)
                            \o Tokens(lastRun.line[i].header)) = Absent) =>
             /\ Run.raised = "ProtocolError" /\ Run.at = i
             /\ ~Called(i)
    /\ Ran(LineFreqStarPowStop) => (Run.raised = "ProtocolError" /\ Run.at = 2)
    /\ Ran(LineSlewAutoStop) => (Run.raised = "ProtocolError" /\ Run.at = 2)
    /\ Ran(LineSlewAuto) => (Run.raised = "ProtocolError" /\ Run.at = 2)

C4_Witness ==
    /\ Ran(LineFreqStarPowStop)
    /\ Resolve(Tree, << <<"P","O","W">>, <<"S","T","O","P">> >>) # Absent
    /\ Run.raised = "ProtocolError" /\ Run.at = 2
    /\ Texts = << <<":","F","R","E","Q","U","E","N","C","Y",":","S","T","A","R","T">> >>

\* C5: a header that starts with ':' is resolved from the root by its own
\* tokens whatever the context is, and leaves its tokens less the last
\* mnemonic as the context
C5_GlobalFromRoot ==
    /\ \A i \in 1..Len(lastRun.line) :
          (Reached(i) /\ ~lastRun.line[i].str /\ lastRun.line[i].header # << >>
           /\ IsGlobal(lastRun.line[i].header)) =>
             LET own == Tail(Tokens(lastRun.line[i].header))
             IN  IF Resolve(Tree, own) = Absent
                 THEN Run.raised = "ProtocolError" /\ Run.at = i /\ ~Called(i)
                 ELSE /\ Called(i)
                      /\ EntryOf(i).handler = Resolve(Tree, own)
                      /\ EntryOf(i).after = Front(own)
    /\ Ran(LineFreqStartRootBand) => Texts = << <<":","F","R","E","Q","U","E","N","C","Y",":","S","T","A","R","T">>, <<":","B","A","N","D">> >>
    /\ Ran(LineFreqStarRootFreqStop) => Texts = << <<":","F","R","E","Q","U","E","N","C","Y",":","S","T","A","R","T">>, <<":","F","R","E","Q","U","E","N","C","Y",":","S","T","O","P">> >>
    /\ Ran(LinePowStarStopLev) => (Len(Run.trace) >= 2
                                   /\ Run.trace[2].handler.name = <<":","P","O","W","E","R",":","S","T","O","P">>)

C5_Witness ==
    /\ Ran(LineFreqStartRootBand)
    /\ Len(Run.trace) = 2
    /\ Run.trace[2].before = << <<"F","R","E","Q">> >>
    /\ Run.trace[2].handler.name = <<":","B","A","N","D">>
    /\ Run.trace[2].after = << >>

\* C6: a common command is resolved against the common commands and leaves
\* the context as it was, so the shorthand header after it is resolved
\* relative to the same parent as before it
C6_CommonKeepsParent ==
    /\ \A k \in 1..Len(Run.trace) :
          (lastRun.ran /\ IsCommon(Run.trace[k].header)) =>
             /\ HasKey(Tree, Root, Run.trace[k].header)
             /\ Run.trace[k].handler = Tree[Tree[Root].keys[Run.trace[k].header]].leaf
             /\ Run.trace[k].after = Run.trace[k].before
             /\ Run.trace[k].after = ContextAfter(lastRun.line, Run.trace[k].index - 1)
    /\ (Ran(LineStarIdnStop) /\ HasKey(Tree, Root, <<"*","I","D","N">>)) =>
          Texts = << <<":","F","R","E","Q","U","E","N","C","Y",":","S","T","A","R","T">>, <<"*","I","D","N">>, <<":","F","R","E","Q","U","E","N","C","Y",":","S","T","O","P">> >>

C6_Witness ==
    /\ Ran(LineStarIdnStop)
    /\ Len(Run.trace) = 3
    /\ Run.trace[2].handler.name = <<"*","I","D","N">>
    /\ Run.trace[2].before = << <<"F","R","E","Q">> >>
    /\ Run.trace[3].handler.name = <<":","F","R","E","Q","U","E","N","C","Y",":","S","T","O","P">>

\* C7: while every registration has succeeded, wherever a long mnemonic was
\* registered, the short mnemonic the call derived for it and, for a
\* case-insensitive registration, the short form of the long mnemonic (its
\* first 3 characters when the 4th is a vowel, else its first 4) are keys
\* of the same node that refer to the same child as the long mnemonic
C7_ShortIsAliasOfLong ==
    ~anyFailed =>
        \A w \in walked :
            /\ w.short # NoShort =>
                  /\ HasKey(Tree, w.dct, w.short)
                  /\ Tree[w.dct].keys[w.short] = Tree[w.dct].keys[w.long]
            /\ (w.ignore_case /\ ShortToken(w.long, TRUE) # NoShort) =>
                  /\ HasKey(Tree, w.dct, ShortToken(w.long, TRUE))
                  /\ Tree[w.dct].keys[ShortToken(w.long, TRUE)] = Tree[w.dct].keys[w.long]

\* C8: a registration whose derived short mnemonic meets a key that belongs
\* to another long mnemonic raises, and no key is shared by two different
\* long mnemonics registered in the same node
C8_CollisionRejected ==
    /\ (lastReg.called /\ lastReg.clash) => lastReg.err
    /\ \A w1, w2 \in walked :
          (w1.dct = w2.dct /\ w1.long # w2.long) =>
             /\ Tree[w1.dct].keys[w1.long] # Tree[w2.dct].keys[w2.long]
             /\ w1.short # w2.long
             /\ (w1.short # NoShort => w1.short # w2.short)

(***************************************************************************)
(* Properties of the server.                                               *)
(***************************************************************************)
Bound == {c \in Conns : conns[c].state = "open"}

\* C1: an error raised while a line is parsed, resolved or executed never
\* ends the polling loop of an Experiment and never sets the shutdown
\* signal of the server
C1_ErrorsNeverStopPolling ==
    /\ \A e \in DOMAIN threads : threads[e] # "dead"
    /\ "experiment" \notin shutdownBy

\* C9: at most one Experiment is created and started per address, and every
\* connection of an address is bound to an instrument of that Experiment,
\* the one of the port it connected to
C9_OneExperimentPerIdentity ==
    /\ \A a \in Addresses : created[a] <= 1 /\ experiments[a] = created[a]
    /\ DOMAIN threads = {Exp(a, 1) : a \in {b \in Addresses : created[b] = 1}}
    /\ \A c \in Bound :
          /\ created[conns[c].addr] = 1
          /\ conns[c].inst = Inst(Exp(conns[c].addr, 1), conns[c].port)

C9_Witness ==
    \E c, d \in Bound :
        /\ c # d
        /\ conns[c].addr = conns[d].addr
        /\ conns[c].port # conns[d].port
        /\ created[conns[c].addr] = 1
        /\ ExpOf(conns[c].inst) = ExpOf(conns[d].inst)

\* C10: a connection is bound to an instrument of the Experiment of its
\* address, and the bytes of a line put to an instrument all come from
\* connections of the address that owns the instrument
C10_SessionsIsolated ==
    /\ \A c \in Bound : Owner(conns[c].inst) = conns[c].addr
    /\ \A d \in delivered : d[1] = d[2]
    /\ \A i \in DOMAIN instruments :
          \A k \in 1..Len(instruments[i].iqueue) :
             \A src \in Sources(instruments[i].iqueue[k]) : conns[src].addr = Owner(i)

\* C11: the incomplete tail of the received bytes is kept per connection:
\* the bytes a communication loop prepends to what it receives, and the
\* bytes of every line put to an instrument, were all received on that one
\* connection
C11_TailPerConnection ==
    /\ \A c \in Conns :
          conns[c].pc = "recv" => Sources(conns[c].things) \subseteq {c}
    /\ \A i \in DOMAIN instruments :
          \A k \in 1..Len(instruments[i].iqueue) :
             Cardinality(Sources(instruments[i].iqueue[k])) <= 1

\* C12: the calls that run handlers and hooks are made by the thread of the
\* Experiment that owns the instrument, and no two calls of one Experiment
\* are in progress at a time
C12_HandlersSerialized ==
    /\ \A x \in polling : x.thread = ExpOf(x.inst)
    /\ \A x, y \in polling : ExpOf(x.inst) = ExpOf(y.inst) => x = y

\* two connections of one address are open on different ports, both
\* instruments have a line waiting, and the call for one is in progress
C12_Witness ==
    \E c, d \in Bound :
        /\ conns[c].addr = conns[d].addr
        /\ conns[c].inst # conns[d].inst
        /\ instruments[conns[c].inst].iqueue # << >>
        /\ instruments[conns[d].inst].iqueue # << >>
        /\ Call(ExpOf(conns[c].inst), conns[c].inst) \in polling

(***************************************************************************)
(* Properties of the power supply.                                         *)
(***************************************************************************)
\* :RAMP was handled, with a positive rate, and nothing else was asked
OnlyRamp ==
    /\ cmds = << "ramp" >>
    /\ magnet.field_rate > 0
    /\ caller \in {"idle", "second"}

\* the worker took the ramp button and is back in its main loop
RampReturned ==
    /\ caller = "idle"
    /\ ~ramp_thread.ramp_button
    /\ ramp_thread.pc \in {"main", "sleep"}

\* C13: after a RAMP with a positive rate and no further command the field
\* moves toward the target by at most rate * tick per tick, never passes
\* the target, and the ramp ends with the field equal to the target
C13_RampReachesTarget ==
    OnlyRamp =>
        /\ magnet.field \in 0..magnet.field_target
        /\ magnet.voltage \in 0..magnet.field_rate
        /\ RampReturned =>
              /\ magnet.field = magnet.field_target
              /\ ramp_thread.state =
                    IF magnet.field_target = 0 THEN "AT_ZERO" ELSE "HOLDING"

\* C14: once the handler of PAUSE, ZERO or of the quench flag has written
\* its two flags while a ramp is in progress, the ramp makes at most one
\* further increment
C14_InterruptWithinOneTick == watch.armed => watch.incs <= 1

Quenched ==
    /\ ramp_thread.state = "QUENCHED"
    /\ magnet.field = 0
    /\ magnet.voltage = 0

\* C15: while the quench flag is raised, the next change of state of the
\* worker, and the next choice of its main loop, is the one to QUENCHED
\* with field and voltage 0
C15_QuenchFirst ==
    [][ ( /\ ramp_thread.quench_event
          /\ ~ramp_thread.shutdown
          /\ \/ ramp_thread'.state # ramp_thread.state
             \/ ramp_thread.pc = "main" /\ ramp_thread'.pc \in {"ramp_enter", "sleep"} )
        => Quenched' ]_vars

\* C16: shutdown() returns: once it has set its two flags and waits in
\* join, the worker ends and join returns
C16_ShutdownTerminates == (caller = "join") ~> (caller = "joined")

ServerStopped ==
    /\ \A p \in Ports : listeners[p].pc = "stopped"
    /\ \A c \in Conns : conns[c].pc \in {"none", "stopped"}
    /\ \A e \in DOMAIN threads : threads[e] # "running"

WorkerStopped == ramp_thread.pc \in {"unstarted", "done"}

\* C17: once the shutdown signal is set every loop stops: the accept loop
\* of every port, the loop of every connection, the polling loop of every
\* Experiment, and the worker of the power supply of an Experiment
C17_AllLoopsStop == shutdown_event ~> (ServerStopped /\ WorkerStopped)

(***************************************************************************)
(* Properties of the error log.                                            *)
(***************************************************************************)
ErrQuery == << Unit(<<"*","E","R","R","?">>, 0) >>
Answered(text) ==
    /\ Len(vi.oqueue) = Len(viRun.before.oqueue) + 1
    /\ vi.oqueue[Len(vi.oqueue)] = text \o << "\n" >>
Failed == viRun.n > 0 /\ (viRun.raised # "no" \/ viRun.escaped)

\* C18: a line that fails appends one message to the error log; the error
\* query answers the oldest message not yet returned and advances the
\* index, or answers 'No errors' when every message has been returned;
\* the index stays within the log and the log never shrinks
C18_ErrorLogDequeued ==
    /\ vi.error_index \in 0..Len(vi.error_log)
    /\ Len(vi.error_log) >= Len(viRun.before.error_log)
    /\ SubSeq(vi.error_log, 1, Len(viRun.before.error_log)) = viRun.before.error_log
    /\ Failed => Len(vi.error_log) = Len(viRun.before.error_log) + 1
    /\ (viRun.n > 0 /\ viRun.line = ErrQuery) =>
          LET b == viRun.before
          IN  IF b.error_index < Len(b.error_log)
              THEN /\ Answered(<< b.error_log[b.error_index + 1] >>)
                   /\ vi.error_index = b.error_index + 1
                   /\ vi.error_log = b.error_log
              ELSE /\ Answered(NoErrors)
                   /\ vi.error_index = b.error_index
                   /\ vi.error_log = b.error_log

\* the part of C18 that the code keeps: index within the log, log only grows
ErrLogMonotone ==
    /\ vi.error_index \in 0..Len(vi.error_log)
    /\ SubSeq(vi.error_log, 1, Len(viRun.before.error_log)) = viRun.before.error_log

(***************************************************************************)
(* Properties of the output line.                                          *)
(***************************************************************************)
IdnQuery == << Unit(<<"*","I","D","N","?">>, 0) >>
SetOnly == << Unit(<<":","S","Y","S","T",":","T","I","M","E",":","R","E","S">>, 0) >>
SetThenQuery == << Unit(<<":","S","Y","S","T",":","T","I","M","E",":","R","E","S">>, 0), Unit(<<"*","I","D","N","?">>, 0) >>
Processed(line) == viRun.n > 0 /\ viRun.line = line

\* C19: the output line of a message is the responses of its query units
\* joined with ';': a set command alone is answered with an empty line, a
\* set command followed by a query with the result of the query, and in
\* both cases the message is processed to its end
C19_QueryResultsJoined ==
    /\ Processed(IdnQuery) => ~viRun.escaped /\ Answered(<<"*","I","D","N">>)
    /\ Processed(SetOnly) => ~viRun.escaped /\ Answered(<< >>)
    /\ Processed(SetThenQuery) => ~viRun.escaped /\ Answered(<<"*","I","D","N">>)

(***************************************************************************)
(* Properties of the hooks.                                                *)
(***************************************************************************)
\* what a hook of the call sees: the new value stored, the other value as
\* it was
SeenBy(k) ==
    LET e == lastCall.events[k]
    IN  /\ e.hook = lastCall.hooks[k]
        /\ e.current = props["current"].value
        /\ e.state = props["state"].value

HeldAt(T, tokens) ==
    IF Resolve(T, tokens) = Absent THEN {} ELSE {Resolve(T, tokens)}
Gs(text) == Handler("gs", text)
Defining(p) == regCall.n > 0 /\ regCall.p = p

\* C21: the set form and the query form of a header, registered in two
\* calls in either order, both succeed and the one leaf of the header
\* holds both handlers; a leaf that received one form holds that one only
C21_LeafHoldsPair ==
    /\ (Defining(Value(<<":","A",":","V",":","K","?">>, <<"4">>)) /\ Resolve(regCall.before, << <<"A">>, <<"V">>, <<"K","?">> >>) = Absent)
          => ~regCall.err
    /\ {Value(<<":","A",":","V",":","K">>, <<"3">>), Value(<<":","A",":","V",":","K","?">>, <<"4">>)} \subseteq defined
          => HeldAt(registry, << <<"A">>, <<"V">>, <<"K">> >>) = {Gs(<<"3">>), Gs(<<"4">>)}
    /\ (Value(<<":","A",":","Q",":","K">>, <<"3","3">>) \in defined)
          => HeldAt(registry, << <<"A">>, <<"Q">>, <<"K">> >>) = {Gs(<<"3","3">>)}

\* the leaf a pattern of the test fills first
SlotOf(p) ==
    IF p.cmd[1] = "*" THEN << p.cmd >> ELSE Tail(Split(p.cmd, ":"))
Plain(p) == p.cmd \in {<<":","A",":","V",":","K">>, <<":","A",":","V",":","K","?">>, <<":","A",":","Q",":","K">>, <<":","B">>, <<"*","I","D","N","?">>}

\* C22: a registration into a leaf that holds a handler fails and the
\* handler stays, for compound and for common headers
C22_FilledSlotRejected ==
    (regCall.n > 0 /\ Plain(regCall.p)
       /\ Resolve(regCall.before, SlotOf(regCall.p)) # Absent)
    => /\ regCall.err
       /\ Resolve(registry, SlotOf(regCall.p)) = Resolve(regCall.before, SlotOf(regCall.p))

Reaches(header, text) ==
    LET f == Find(registry, header, << >>)
    IN  ~f.err /\ f.handler = Gs(text)

\* C23: a handler registered with optional parts is reached on every path
\* with the part present or absent
C23_OptionalCrossProduct ==
    /\ (Value(<<"[",":","B","]",":","R","?">>, <<"7">>) \in defined /\ Value(<<":","B">>, <<"8">>) \in defined)
          => Reaches(<<":","B",":","R","?">>, <<"7">>) /\ Reaches(<<":","R","?">>, <<"7">>)
    /\ (Value(<<"[",":","S","E","N","S","E","[","1","]","[","[",":","D","C","]",":","Q","U","[","I","C","K","]","]","]",":","[","T","]","[","H","]","E","N","k","[",":","P","]">>, <<"7","7">>) \in defined)
          => /\ Reaches(<<":","S","E","N","S","E",":","E","N","K">>, <<"7","7">>)
             /\ Reaches(<<":","S","E","N","S","E","1",":","D","C",":","Q","U",":","T","E","N","K",":","P">>, <<"7","7">>)
             /\ Reaches(<<":","S","E","N","S",":","Q","U","I","C",":","T","H","E","N">>, <<"7","7">>)

\* the part of C23 that the code keeps: an optional leading mnemonic
OptionalLeading ==
    (Value(<<"[",":","B","]",":","R","?">>, <<"7">>) \in defined)
          => Reaches(<<":","B",":","R","?">>, <<"7">>) /\ Reaches(<<":","R","?">>, <<"7">>)

\* the keys the code derives from the pattern of test_access
TextualKeys ==
    (Value(<<"[",":","S","E","N","S","E","[","1","]","[","[",":","D","C","]",":","Q","U","[","I","C","K","]","]","]",":","[","T","]","[","H","]","E","N","k","[",":","P","]">>, <<"7","7">>) \in defined)
          => /\ Reaches(<<":","S","E","N","S",":","D","C",":","Q","U","[",":","[","T","]","[",":","P">>, <<"7","7">>)
             /\ ~Reaches(<<":","[","T","]","[","H","]","E","N","K">>, <<"7","7">>)
             /\ Reaches(<<":","Q","U","[","I","C","K","]","]","]",":","[","T","]","[">>, <<"7","7">>)

(***************************************************************************)
(* Properties of the value resolvers.                                      *)
(***************************************************************************)
IsMax(parse_value) ==
    parse_value.name = "symbol" /\ parse_value.symbol \in {<<"M","A","X">>, <<"M","A","X","I","M","U","M">>}
IsMin(parse_value) ==
    parse_value.name = "symbol" /\ parse_value.symbol \in {<<"M","I","N">>, <<"M","I","N","I","M","U","M">>}

\* the last call resolved a value against a bounds pair
Resolving(fn) == valCall.fn = fn /\ valCall.n > 0 /\ valCall.min_max # NoBounds

\* the last call resolved MAX to the upper bound and MIN to the lower bound
ExtremesResolved ==
    /\ IsMax(valCall.arg) =>
           valCall.out.raised = "" /\ Same(valCall.out.value, valCall.min_max[2])
    /\ IsMin(valCall.arg) =>
           valCall.out.raised = "" /\ Same(valCall.out.value, valCall.min_max[1])

\* C24: for every bounds pair (min, max), MAX or MAXIMUM resolves to max and
\* MIN or MINIMUM resolves to min, in get_float_value and in
\* FloatProperty.setter alike
C24_ExtremesAgree ==
    (Resolving("get_float_value") \/ Resolving("setter")) => ExtremesResolved

\* FloatProperty.setter alone resolves MAX to max and MIN to min
SetterExtremes == Resolving("setter") => ExtremesResolved

\* get_float_value resolves MAX to min and MIN to max
ResolverInverted ==
    Resolving("get_float_value") =>
        /\ IsMax(valCall.arg) => Same(valCall.out.value, valCall.min_max[1])
        /\ IsMin(valCall.arg) => Same(valCall.out.value, valCall.min_max[2])

\* number * factor for a number that get_float_value accepts: the factor of
\* its suffix, or of the native unit when it has none
Accepted(parse_value, units) ==
    /\ parse_value.name = "number"
    /\ IF parse_value.suffix = << >> THEN units.kind = "dict" => units.none
       ELSE units.kind # "None"
            /\ UnitFactor(Upper(parse_value.suffix), units.items, 1).found
ScaledValue(parse_value, units) ==
    LET F == UnitFactor(Upper(parse_value.suffix), units.items, 1)
    IN  Scaled(Dec(parse_value.value, 0),
               IF parse_value.suffix # << >> THEN F.exp
               ELSE IF units.kind = "dict" THEN units.native ELSE 0)

\* the last command set a double property to a number outside its bounds
OutOfBounds ==
    /\ valCall.fn = "write_handler"
    /\ Accepted(valCall.arg, valCall.units)
    /\ LET v == ScaledValue(valCall.arg, valCall.units)
       IN  Lt(v, valCall.min_max[1]) \/ Gt(v, valCall.min_max[2])

\* C25: a number whose scaled value is outside the bounds of a double
\* property of the AMI420 is rejected with -105,"Out of range", the error is
\* appended to the log, and the property keeps the value it had
C25_OutOfRangeKeepsValue ==
    OutOfBounds =>
        /\ valCall.out.raised = "-105,\"Out of range\""
        /\ Len(ami.error_log) = valCall.nlog + 1
        /\ ami.error_log[Len(ami.error_log)] = "-105,\"Out of range\""
        /\ ami[valCall.name] = valCall.before

\* a property that an earlier command has changed rejects 200 A and 3 kA
C25_Witness ==
    /\ OutOfBounds
    /\ valCall.name = "current_limit"
    /\ valCall.arg.suffix # << >>
    /\ ~Same(valCall.before, Dec(100, 0))
    /\ ami.current_limit = valCall.before

\* min <= value <= max
Le(a, b) == Lt(a, b) \/ (a.kind # "nan" /\ Same(a, b))
Within(value, min_max) == Le(min_max[1], value) /\ Le(value, min_max[2])

\* C26: the value of a FloatProperty with bounds (min, max) lies within
\* [min, max] after every sequence of set calls: a set outside the range is
\* clamped to the nearest bound and a set that raises changes nothing
C26_ValueWithinBounds ==
    fprop.min_max # NoBounds => Within(fprop.value, fprop.min_max)

\* a set call that raises leaves the value as it was
RaisingSetKeepsValue ==
    (valCall.fn = "setter" /\ valCall.out.raised # "") => fprop.value = valCall.before

\* a number without suffix outside the bounds is stored as the nearest bound,
\* and INF and NINF as the upper and the lower bound
SetterClamps ==
    (valCall.fn = "setter" /\ fprop.min_max # NoBounds /\ valCall.out.raised = "") =>
        LET v == Dec(valCall.arg.value, 0)
        IN  /\ (valCall.arg.name = "number" /\ valCall.arg.suffix = << >>) =>
                   /\ Lt(v, fprop.min_max[1]) => fprop.value = fprop.min_max[1]
                   /\ Gt(v, fprop.min_max[2]) => fprop.value = fprop.min_max[2]
                   /\ Within(v, fprop.min_max) => fprop.value = v
            /\ (valCall.arg.name = "symbol" /\ valCall.arg.symbol = <<"I","N","F">>) =>
                   fprop.value = fprop.min_max[2]
            /\ (valCall.arg.name = "symbol" /\ valCall.arg.symbol = <<"N","I","N","F">>) =>
                   fprop.value = fprop.min_max[1]

\* the only value outside the bounds that is ever stored is nan
OnlyNaNEscapes ==
    fprop.min_max # NoBounds =>
        (Within(fprop.value, fprop.min_max) \/ fprop.value = NaN)

\* what the rule of the suffixes gives for a number with a suffix: rejected
\* when no unit is configured or the suffix, in upper case, is not a unit
\* after one of the prefixes or after nothing; else number * prefix * unit
Ruled(parse_value, units) ==
    LET suffix == Upper(parse_value.suffix)
        Fits == { i \in 1..Len(units.items) :
                    /\ EndsWith(suffix, Upper(units.items[i][1]))
                    /\ LET prefix == DropLast(suffix, Len(units.items[i][1]))
                       IN  prefix = << >> \/ prefix \in DOMAIN SI_prefixes }
        i == CHOOSE j \in Fits : \A k \in Fits : j <= k
        prefix == DropLast(suffix, Len(units.items[i][1]))
    IN  IF units.kind = "None" \/ Fits = {} THEN [rejected |-> TRUE, exp |-> 0]
        ELSE [rejected |-> FALSE,
              exp |-> units.items[i][2]
                        + (IF prefix = << >> THEN 0 ELSE SI_prefixes[prefix])]

\* the outcome of the last call follows the rule of the suffixes; a number
\* that the rule accepts may still be out of range
FollowsRule(units, invalid) ==
    LET R == Ruled(valCall.arg, units)
    IN  IF R.rejected THEN valCall.out.raised = invalid
        ELSE \/ valCall.out.raised = "OutOfRangeError"
             \/ /\ valCall.out.raised = ""
                /\ Same(valCall.out.value,
                        Clamped(Scaled(Dec(valCall.arg.value, 0), R.exp),
                                valCall.min_max))

Suffixed == valCall.arg.name = "number" /\ valCall.arg.suffix # << >>

\* C27: a number with a suffix is rejected as an invalid argument when no
\* unit is configured or the suffix is not an optional SI prefix followed by a
\* configured unit, in any letter case; otherwise it is multiplied by the
\* prefix factor and the unit factor, M being 1e-3 and MA 1e6
C27_SuffixRule ==
    /\ (valCall.fn = "get_float_value" /\ Suffixed) =>
           FollowsRule(valCall.units, "InvalidArgumentError")
    /\ (valCall.fn = "setter" /\ Suffixed) =>
           FollowsRule(StrUnit(fprop.unit), "ProtocolError")

\* get_float_value alone follows the rule
ResolverFollowsRule ==
    (valCall.fn = "get_float_value" /\ Suffixed) =>
        FollowsRule(valCall.units, "InvalidArgumentError")

\* M is 1e-3 and MA is 1e6
MilliAndMega == SI_prefixes[<<"M">>] = -3 /\ SI_prefixes[<<"M","A">>] = 6

(***************************************************************************)
(* Properties of the transport errors.                                     *)
(***************************************************************************)
\* the communication loop of c ends with an error in this step
Fails(c) == conns[c].pc # "failed" /\ conns'[c].pc = "failed"

\* C28: a socket timeout is retried with the buffered bytes kept, and any
\* other transport error ends the communication loop of its connection
\* alone: the signal that stops the listeners, the other connections and the
\* sessions is not set
C28_ErrorEndsOnlyItsLoop ==
    [][\A c \in Conns :
          /\ Fails(c) => (shutdown_event' = shutdown_event
                          /\ listeners' = listeners /\ threads' = threads
                          /\ \A d \in Conns \ {c} : conns'[d] = conns[d])
          /\ (conns[c].pc = "recv" /\ conns'[c].pc = "send" /\ wire'[c] = wire[c]) =>
                 (buffer' = buffer /\ wire' = wire)]_vars

\* a timeout keeps the buffer and the bytes on the wire, and the loop goes on
TimeoutRetried ==
    [][\A c \in Conns :
          (conns[c].pc = "recv" /\ conns'[c].pc = "send" /\ wire'[c] = wire[c]) =>
              (buffer' = buffer /\ wire' = wire
               /\ shutdown_event' = shutdown_event)]_vars

\* an error of send ends the loop of its connection alone
SendErrorLocal ==
    [][\A c \in Conns :
          (conns[c].pc = "send" /\ Fails(c)) => shutdown_event' = shutdown_event]_vars

\* after an error of recv every loop of the server stops or has failed
ErrorStopsAll ==
    ("communicate" \in shutdownBy) => shutdown_event

(***************************************************************************)
(* Properties of the states of the power supply.                           *)
(***************************************************************************)
\* C29: the state starts as AT_ZERO with field 0; servicing RAMP sets RAMPING,
\* ZERO sets ZEROING and PAUSE sets HOLDING; a ramp that reaches its target
\* ends in AT_ZERO when the target is 0 and in HOLDING otherwise; and the
\* query STATE? answers the code of the current state
C29_StateReported ==
    (answer.asked /\ answer.header = <<":","S","T","A","T","E","?">>) =>
        (answer.out = "value" /\ answer.text = Digits(State[answer.state]))

\* the transitions of the state
StateTransitions ==
    [][/\ (ramp_thread.pc = "main" /\ ramp_thread'.pc = "ramp_enter") =>
              \/ ramp_thread.ramp_button /\ ramp_thread'.state = "RAMPING"
              \/ ~ramp_thread.ramp_button /\ ~ramp_thread.pause_button
                 /\ ramp_thread.zero_button /\ ramp_thread'.state = "ZEROING"
       /\ (ramp_thread.pc = "main" /\ ramp_thread'.pc = "main"
           /\ ~ramp_thread.ramp_button /\ ramp_thread.pause_button
           /\ ~ramp_thread'.pause_button) => ramp_thread'.state = "HOLDING"
       /\ (ramp_thread.pc = "ramp_step" /\ ramp_thread'.pc = "main"
           /\ magnet'.field = ramp_thread.target) =>
              ramp_thread'.state = (IF ramp_thread.target = 0 THEN "AT_ZERO"
                                    ELSE "HOLDING")
       /\ (ramp_thread'.state # ramp_thread.state
           /\ ramp_thread'.state \in {"AT_ZERO", "HOLDING"}
           /\ ramp_thread.pc = "ramp_step") => magnet'.field = ramp_thread.target
      ]_vars

\* before any command the state is AT_ZERO and the field is 0
StartsAtZero ==
    cmds = << >> => (ramp_thread.state = "AT_ZERO" /\ magnet.field = 0)

\* the header without '?' reaches the handler as a set command
StateSetForm ==
    (answer.asked /\ answer.header = <<":","S","T","A","T","E">>) => answer.out = "None"

(***************************************************************************)
(* Properties of the units of the power supply.                            *)
(***************************************************************************)
\* the call c stored a number without suffix in the property `name` while
\* the units were those of the record u
SetPlainly(c, name, u) ==
    /\ c.fn = "write_handler" /\ c.name = name /\ c.out.raised = ""
    /\ c.arg.name = "number" /\ c.arg.suffix = << >>
    /\ c.units.native = field_unit_multiplier(u)
    /\ name = "field_rate" => c.units.per = ramp_unit_multiplier(u)

\* C30: a change of the field unit or of the ramp-rate unit leaves the stored
\* field target and field rate as they are and rescales only what the queries
\* report: a value set without suffix is read back as the same number by
\* the query under the same units ('CONF:FIELD:PROG 1', then 'FIELD:PROG?'
\* gives '1.0000')
C30_UnitsRoundTrip ==
    \A header \in { <<":","F","I","E","L","D",":","P","R","O","G","?">>, <<":","R","A","M","P",":","R","A","T","E",":","F","I","E","L","D","?">> } :
        (answer.asked /\ answer.header = header
         /\ SetPlainly(answer.call, Queried(header), answer)) =>
            (answer.out = "value"
             /\ answer.text = Format4(Dec(answer.call.arg.value, 0)))

\* the commands of the units change neither field_target nor field_rate
UnitsFrame ==
    [][(ami'.field_units # ami.field_units
        \/ ami'.ramp_rate_units # ami.ramp_rate_units) =>
           (ami'.field_target = ami.field_target
            /\ ami'.field_rate = ami.field_rate)]_vars

\* the handlers of the queries, were they called for a query, give back
\* the number that was set under the same units
HandlersRoundTrip ==
    \A name \in {"field_target", "field_rate"} :
        SetPlainly(valCall, name, ami) =>
            ReadField(ami, name) = Format4(Dec(valCall.arg.value, 0))

\* one tesla is read as 10 kilogauss, and 1 kG/s as 60 kG/min
Rescaled ==
    /\ Format4(Scaled(Dec(1, 0), 1)) = <<"1","0",".","0","0","0","0">>
    /\ Format4(PerMinute(Dec(1, 0), -1)) = <<"6","0",".","0","0","0","0">>
    /\ Format4(PerMinute(Dec(2, 0), 1)) = <<"0",".","0","3","3","3">>
    /\ Format4(Dec(1, 0)) = <<"1",".","0","0","0","0">>

(***************************************************************************)
(* Empty units of a program message.                                       *)
(***************************************************************************)
HasEmptyUnit(units) == \E i \in 1..Len(units) : units[i].header = << >>
FirstEmpty(units) ==
    CHOOSE i \in 1..Len(units) :
        /\ units[i].header = << >>
        /\ \A j \in 1..(i - 1) : units[j].header # << >>
Filled(units) == {i \in 1..Len(units) : units[i].header # << >>}

\* the last line processed was the text of these units, on the receiver of setUp
RanMessage(units) ==
    /\ fixture /\ lastRun.ran
    /\ lastRun.line = UpperLine(program_message(units))

\* C31: an empty unit between ';' separators is skipped without being
\* dispatched and without an error, and the units after it are dispatched:
\* a message with an empty unit raises nothing and dispatches each of its
\* other units.
C31_EmptyUnitSkipped ==
    \A units \in Messages :
        (RanMessage(units) /\ HasEmptyUnit(units))
            => /\ lastRun.run.raised = "no"
               /\ Len(lastRun.run.trace) = Cardinality(Filled(units))

\* what the code does: the first empty unit and all that follows are one
\* unparseable item; the units before it are dispatched, then ProtocolError
EmptyUnitEndsMessage ==
    \A units \in Messages :
        (RanMessage(units) /\ HasEmptyUnit(units))
            => /\ lastRun.run.raised = "ProtocolError"
               /\ lastRun.run.at = FirstEmpty(units)
               /\ Len(lastRun.run.trace) = FirstEmpty(units) - 1
               /\ Len(receiver.error_log) = Len(lastRun.before.error_log) + 1
               /\ ~escaped

\* a message without an empty unit has every unit dispatched
FilledUnitsDispatched ==
    \A units \in Messages :
        (RanMessage(units) /\ ~HasEmptyUnit(units))
            => /\ lastRun.run.raised = "no"
               /\ Len(lastRun.run.trace) = Len(units)

(***************************************************************************)
(* The short form of a mnemonic.                                           *)
(***************************************************************************)
\* the rule: the first 3 characters when the 4th is a vowel, else the first 4
RuleShort(long) ==
    IF Len(long) > 3 /\ long[4] \in {"A","E","I","O","U","Y"}
    THEN Prefix(long, 3)
    ELSE IF Len(long) > 4 THEN Prefix(long, 4) ELSE long
RuleKeys(tkn) == {Upper(tkn), RuleShort(Upper(tkn))}

\* C32: for every mnemonic registered case-insensitively the short form is
\* the first 3 characters when the 4th character is a vowel and the first 4
\* otherwise, whatever the letter case of the pattern, and add_command
\* derives the same keys as parse_variative_header.
C32_ShortFormSameKeys ==
    (derived.applied /\ derived.ignore_case)
        => /\ ~derived.added.err
           /\ derived.added.keys = RuleKeys(derived.tkn)
           /\ derived.added.keys = derived.parsed.keys

\* the parser follows the rule in every letter case
ParserFollowsRule ==
    (derived.applied /\ derived.ignore_case)
        => (~derived.parsed.err /\ derived.parsed.keys = RuleKeys(derived.tkn))

\* add_command differs only where the 4th character is a vowel in lower case
SlipOnLowerVowel ==
    (derived.applied /\ derived.ignore_case)
        => (derived.added.keys # derived.parsed.keys
              <=> (Len(derived.tkn) > 3 /\ derived.tkn[4] \in {"a","e","i","o","u","y"}))

\* with ignore_case = False both derive the same keys or both raise
CaseSensitiveAgree ==
    (derived.applied /\ ~derived.ignore_case)
        => /\ derived.added.err = derived.parsed.err
           /\ (~derived.added.err => derived.added.keys = derived.parsed.keys)

(***************************************************************************)
(* The lines of a byte stream.                                             *)
(***************************************************************************)
\* the positions of the line endings of a stream
Endings(s) == {k \in 1..Len(s) : s[k].sym = "NL"}
\* the position of the n-th line ending
Ending(s, n) ==
    CHOOSE k \in Endings(s) : Cardinality({j \in Endings(s) : j <= k}) = n
\* the complete lines of a stream, in order, and what follows the last ending
CompleteLines(s) ==
    [n \in 1..Cardinality(Endings(s)) |->
        SubSeq(s, (IF n = 1 THEN 0 ELSE Ending(s, n - 1)) + 1, Ending(s, n) - 1)]
Remainder(s) ==
    LET n == Cardinality(Endings(s))
    IN  SubSeq(s, (IF n = 0 THEN 0 ELSE Ending(s, n)) + 1, Len(s))

\* the bytes of the connection c that recv has returned so far
Received(c) == SubSeq(sent, 1, Len(sent) - Len(wire[c]))

\* C33: for a single connection the lines enqueued to the instrument are the
\* received stream split at the line ending, in order and each complete
\* line once, however the stream is cut into chunks; the bytes after the
\* last line ending are held back (in the buffer, not in the queue), also
\* across receive timeouts.
C33_LinesAreStreamSplit ==
    conns[1].state = "open"
        => /\ instruments[conns[1].inst].iqueue = CompleteLines(Received(1))
           /\ buffer = Remainder(Received(1))

\* two lines are enqueued, the second after a cut inside it, a tail is
\* held back, and the thread waits in recv with nothing to receive: the
\* next step is a timeout
C33_Witness ==
    /\ conns[1].state = "open" /\ conns[1].pc = "recv"
    /\ wire[1] = << >>
    /\ buffer # << >>
    /\ Len(instruments[conns[1].inst].iqueue) = 2
    /\ Len(instruments[conns[1].inst].iqueue[2]) = 2

\* a timeout leaves the tail and the queue as they are
TailKeptOverTimeout ==
    [][(conns[1].pc = "recv" /\ conns'[1].pc = "send" /\ wire' = wire)
          => (buffer' = buffer /\ instruments' = instruments)]_vars

(***************************************************************************)
(* The race of a handler with the worker.                                  *)
(***************************************************************************)
\* the target of a command
Commanded(b) == IF b = "ramp" THEN magnet.field_target ELSE 0

\* the one command b was issued, with a positive rate
Issued(b) == cmds = << b >> /\ magnet.field_rate > 0

\* the field is at the target of b and the ramp is over
Arrived(b) ==
    /\ magnet.field = Commanded(b)
    /\ ramp_thread.state \notin {"RAMPING", "ZEROING"}

\* C34: a RAMP or ZERO command is never lost to the race of its handler
\* (button flag, then state-change flag) with the worker (clear the button,
\* enter the ramp, clear the state-change flag): with a positive rate and no
\* later command the field eventually reaches the commanded target and the
\* state leaves RAMPING/ZEROING.
C34_CommandNotLost ==
    /\ Issued("ramp") ~> (Arrived("ramp") \/ Len(cmds) > 1)
    /\ Issued("zero") ~> (Arrived("zero") \/ Len(cmds) > 1)

\* the handler has written both flags before the worker looks at the button
BothWritten(b) ==
    /\ Issued(b) /\ caller = "idle"
    /\ IF b = "ramp" THEN ramp_thread.ramp_button ELSE ramp_thread.zero_button

\* then the command is carried out
WrittenFirstArrives ==
    /\ BothWritten("ramp") ~> (Arrived("ramp") \/ Len(cmds) > 1)
    /\ BothWritten("zero") ~> (Arrived("zero") \/ Len(cmds) > 1)

\* the command is lost: the worker sleeps in its main loop with no flag
\* set, the state still RAMPING or ZEROING
Lost ==
    /\ caller = "idle"
    /\ ramp_thread.pc \in {"main", "sleep"}
    /\ ~ramp_thread.ramp_button /\ ~ramp_thread.zero_button
    /\ ~ramp_thread.pause_button /\ ~ramp_thread.state_change
    /\ ramp_thread.state \in {"RAMPING", "ZEROING"}

(***************************************************************************)
(* Several buttons pending.                                                *)
(***************************************************************************)
ButtonSet(b) ==
    CASE b = "ramp"  -> ramp_thread.ramp_button
      [] b = "pause" -> ramp_thread.pause_button
      [] b = "zero"  -> ramp_thread.zero_button

\* the commands first and then second were issued, in this order, and both
\* buttons are still set; the field is at 0 and the rate is positive
PendingBoth(first, second) ==
    /\ cmds = << first, second >>
    /\ caller = "idle"
    /\ ButtonSet(first) /\ ButtonSet(second)
    /\ magnet.field = 0 /\ magnet.field_rate > 0

\* the worker has nothing left to do
Settled ==
    /\ caller = "idle"
    /\ ramp_thread.pc \in {"main", "sleep"}
    /\ \A b \in Buttons : ~ButtonSet(b)

\* C35: with several flags pending at once the transitions take effect in
\* the order of the commands, and the worker ends in the state of the last
\* one: RAMP followed by PAUSE ends in HOLDING without the field having run
\* to the target (a target more than one increment away), and PAUSE
\* followed by RAMP ends with the ramp in progress.
C35_LastCommandWins ==
    /\ [](( PendingBoth("ramp", "pause") /\ magnet.field_target > magnet.field_rate )
            => [](magnet.field # magnet.field_target))
    /\ PendingBoth("ramp", "pause") ~> (Settled /\ ramp_thread.state = "HOLDING")
    /\ PendingBoth("pause", "ramp") ~> (ramp_thread.state = "RAMPING")

\* what the code does: the buttons are taken in the order of the if/elif
\* chain, whatever the order of the commands
ChainOrder ==
    [][ (ramp_thread.pc = "main" /\ ramp_thread' # ramp_thread)
        => /\ ramp_thread.ramp_button => ~ramp_thread'.ramp_button
           /\ (ramp_thread.pause_button /\ ~ramp_thread'.pause_button)
                 => ~ramp_thread.ramp_button
           /\ (ramp_thread.zero_button /\ ~ramp_thread'.zero_button)
                 => (~ramp_thread.ramp_button /\ ~ramp_thread.pause_button) ]_vars

\* RAMP after PAUSE, and PAUSE after RAMP, both end in HOLDING at the target
BothEndAtTarget ==
    /\ PendingBoth("ramp", "pause")
          ~> (Settled /\ ramp_thread.state \in {"HOLDING"} /\ magnet.field = magnet.field_target)
    /\ PendingBoth("pause", "ramp")
          ~> (Settled /\ magnet.field = magnet.field_target)

\* ZERO followed by RAMP ends at zero: the ramp is made first
ZeroThenRampEndsAtZero ==
    PendingBoth("zero", "ramp")
        ~> (Settled /\ ramp_thread.state = "AT_ZERO" /\ magnet.field = 0)

(***************************************************************************)
(* The connection a response is sent on.                                   *)
(***************************************************************************)
\* the connections whose thread serves the instrument i
Serving(i) == {c \in Conns : conns[c].pc = "loop" /\ conns[c].inst = i}

\* a response is taken from the output queue of i and sent
Sends(i) ==
    /\ i \in DOMAIN instruments
    /\ instruments[i].oqueue # << >>
    /\ instruments'[i].oqueue = Tail(instruments[i].oqueue)

\* C36: every response line is sent on the connection whose request
\* produced it, also when two connections of one client identity are open
\* on one port and share the instrument and its output queue: the response
\* taken from a queue comes from a request of the connection whose thread
\* takes it, whichever thread that is.
C36_ResponseToRequester ==
    [][\A i \in Insts :
          Sends(i) => \A c \in Serving(i) : Head(instruments[i].oqueue).of \subseteq {c}]_vars

\* with one connection on the instrument the response goes to the requester
SoleConnectionAnswered ==
    [][\A i \in Insts :
          (Sends(i) /\ Cardinality({c \in Conns : conns[c].inst = i}) = 1)
              => \A c \in Serving(i) : Head(instruments[i].oqueue).of \subseteq {c}]_vars

\* connections of one address on one port are served by the same instrument
SameIdentitySharesQueue ==
    \A c, d \in Bound :
        (conns[c].addr = conns[d].addr /\ conns[c].port = conns[d].port)
            => conns[c].inst = conns[d].inst

(***************************************************************************)
(* Input lines and output lines.                                           *)
(***************************************************************************)
\* the lines process_messages has taken from the input queue
Consumed == nlines - Len(receiver.iqueue)

\* C37: process_messages enqueues exactly one output line for every input
\* line it consumes, whether the line succeeded, failed or gave no
\* response, the output lines in the order of their input lines; and every
\* enqueued input line is eventually consumed while the end signal is clear.
C37_OneOutputPerInput ==
    /\ [](Len(receiver.oqueue) = Consumed)
    /\ [](lastRun.ran =>
            SubSeq(receiver.oqueue, 1, Len(lastRun.before.oqueue)) = lastRun.before.oqueue)
    /\ (receiver.iqueue # << >>) ~> (receiver.iqueue = << >> \/ escaped)

\* what the code keeps: a line whose responses are all texts, or that has
\* none, gets one output line, and earlier output lines stay in place
\* before it
TextResponsesAnswered ==
    lastRun.ran =>
        /\ SubSeq(receiver.oqueue, 1, Len(lastRun.before.oqueue)) = lastRun.before.oqueue
        /\ Len(receiver.oqueue) = Len(lastRun.before.oqueue) +
              (IF JoinRaises(lastRun.run.responses) THEN 0 ELSE 1)

\* every call of process_messages on a queue that holds a line takes one,
\* so that under the polling loop every line is consumed
LinesConsumed == (receiver.iqueue # << >>) ~> (receiver.iqueue = << >>)

(***************************************************************************)
(* Registrations that fail.                                                *)
(***************************************************************************)
\* the step is an add_command call that raised
FailedCall == nregs' = nregs + 1 /\ lastReg'.err

\* C38: a registration that fails (short-form collision, already
\* registered leaf, empty mnemonic) leaves the command tree exactly as it
\* was before the call.
C38_FailedCallLeavesTree ==
    [][FailedCall => receiver'.commands = receiver.commands]_vars

\* what the code keeps: a call that fails removes nothing: every dict that
\* existed is still there with the keys it had, referring to the same
\* dicts, and with the handler it had
FailedCallKeepsOld ==
    [][FailedCall =>
         \A n \in DOMAIN receiver.commands :
            /\ n \in DOMAIN receiver'.commands
            /\ \A k \in DOMAIN receiver.commands[n].keys :
                  /\ k \in DOMAIN receiver'.commands[n].keys
                  /\ receiver'.commands[n].keys[k] = receiver.commands[n].keys[k]
            /\ receiver.commands[n].leaf # Absent
                  => receiver'.commands[n].leaf = receiver.commands[n].leaf]_vars

\* a call that fails because the leaf is already registered, all the
\* mnemonics of the pattern being in the tree, changes nothing
RegisteredTwiceLeavesTree ==
    [][(FailedCall /\ DOMAIN receiver'.commands = DOMAIN receiver.commands)
          => receiver'.commands = receiver.commands]_vars

(***************************************************************************)
(* The two-argument ramp commands.                                         *)
(***************************************************************************)
\* the step is a CONF:RAMP:FIELD or CONF:RAMP:CURR command
RampCall ==
    /\ valCall'.n = valCall.n + 1
    /\ valCall'.fn \in {"set_field_ramp", "set_current_ramp"}

\* C39: CONF:RAMP:FIELD and CONF:RAMP:CURR update target and rate
\* atomically: if either argument is rejected, neither field_target nor
\* field_rate changes.
C39_RampAtomic ==
    [][(RampCall /\ valCall'.out.raised # "")
          => /\ ami'.field_target = ami.field_target
             /\ ami'.field_rate = ami.field_rate]_vars

\* what the code keeps: a rejected first argument leaves both as they
\* were, and a rejected command never changes the rate
FirstRejectedLeavesBoth ==
    [][(RampCall /\ valCall'.first.raised # "")
          => /\ ami'.field_target = ami.field_target
             /\ ami'.field_rate = ami.field_rate]_vars
RejectedKeepsRate ==
    [][(RampCall /\ valCall'.out.raised # "") => ami'.field_rate = ami.field_rate]_vars

\* a rejected rate leaves the target that the first argument set
RejectedRateKeepsNewTarget ==
    [][(RampCall /\ valCall'.first.raised = "" /\ valCall'.out.raised # "")
          => ami'.field_target =
                (IF valCall'.fn = "set_field_ramp" THEN valCall'.first.value
                 ELSE TimesCoil(valCall'.first.value))]_vars

\* both arguments accepted: both are stored, the current and its rate
\* multiplied by the coil constant
AcceptedStoresBoth ==
    [][(RampCall /\ valCall'.out.raised = "" /\ valCall'.arg = NumberValue(1, << >>))
          => /\ Same(ami'.field_target,
                     IF valCall'.fn = "set_field_ramp"
                     THEN Dec(1, field_unit_multiplier(ami)) ELSE Dec(15, -1))
             /\ ami'.field_rate =
                   (IF valCall'.fn = "set_field_ramp" THEN valCall'.out.value
                    ELSE TimesCoil(valCall'.out.value))]_vars

(***************************************************************************)
(* Who writes the field, the voltage and the state of the worker.          *)
(***************************************************************************)
\* the step is made by the thread that runs the handlers and shutdown()
HandlerStep == caller' # caller

\* the worker is in the loop of run(), outside ramp(), and no button and no
\* quench flag is set
WorkerIdle ==
    /\ ramp_thread.pc \in {"main", "sleep"}
    /\ ramp_thread.state \in {"AT_ZERO", "HOLDING", "QUENCHED"}
    /\ ~ramp_thread.ramp_button /\ ~ramp_thread.pause_button
    /\ ~ramp_thread.zero_button /\ ~ramp_thread.quench_event

Measured == << magnet.field, magnet.voltage, ramp_thread.state >>

\* C40: the field, the voltage and the worker state are written only by
\* the worker thread, never by a command handler, and while the worker is
\* outside a ramp loop with no flag pending (AT_ZERO, HOLDING or QUENCHED)
\* it changes none of them.
C40_OnlyWorkerWrites ==
    [][(HandlerStep \/ WorkerIdle) => Measured' = Measured]_vars

\* a handler has returned while the worker holds a field it ramped to, and
\* the worker sleeps with no flag pending
C40_Witness ==
    /\ cmds # << >> /\ caller = "idle"
    /\ WorkerIdle /\ ramp_thread.pc = "sleep"
    /\ ramp_thread.state = "HOLDING" /\ magnet.field > 0


(***************************************************************************)
(* The specifications.                                                     *)
(***************************************************************************)
NextTree ==
    \/ SetUp
    \/ \E p \in ExtraPatterns : Register(p)
    \/ \E line \in Lines : PutLine(line)
    \/ ProcessOne

SpecTree == InitTree /\ [][NextTree]_vars

NextServer ==
    \/ \E c \in Conns, a \in Addresses, p \in Ports : Connect(c, a, p)
    \/ \E c \in Conns, sym \in Symbols : ClientSend(c, sym)
    \/ \E p \in Ports, c \in Conns : ListenAccept(p, c)
    \/ \E p \in Ports : ListenAcquire(p)
    \/ \E p \in Ports : ListenCreate(p)
    \/ \E p \in Ports : ListenLookup(p)
    \/ \E p \in Ports : ListenStop(p)
    \/ \E c \in Conns : CommRead(c)
    \/ \E c \in Conns, n \in 1..MaxSent : CommRecv(c, n)
    \/ \E c \in Conns : CommTimeout(c)
    \/ \E c \in Conns : CommSend(c)
    \/ \E c \in Conns : CommSendDone(c)
    \/ \E c \in Conns : CommStop(c)
    \/ \E i \in Insts : ExperimentPoll(i)
    \/ \E e \in Exps : ExperimentStop(e)

SpecServer == InitServer /\ [][NextServer]_vars

\* the accept loops alone: the clients connect, the listeners bind them
NextListen ==
    \/ \E c \in Conns, a \in Addresses, p \in Ports : Connect(c, a, p)
    \/ \E p \in Ports, c \in Conns : ListenAccept(p, c)
    \/ \E p \in Ports : ListenAcquire(p)
    \/ \E p \in Ports : ListenCreate(p)
    \/ \E p \in Ports : ListenLookup(p)

SpecListen == InitServer /\ [][NextListen]_vars

\* the sessions of one address: connections, communication loops and the
\* polling loop of the Experiment
NextSession ==
    \/ \E c \in Conns, p \in Ports : Connect(c, "A", p)
    \/ \E p \in Ports, c \in Conns : ListenAccept(p, c)
    \/ \E p \in Ports : ListenAcquire(p)
    \/ \E p \in Ports : ListenCreate(p)
    \/ \E p \in Ports : ListenLookup(p)
    \/ \E c \in Conns : \E line \in SessionLines(c) : CommPut(c, line)
    \/ \E c \in Conns : CommGet(c)
    \/ \E i \in Insts : PollBegin(i)
    \/ \E i \in Insts : PollEnd(i)

SpecSession == InitServer /\ [][NextSession]_vars

\* the power supply alone: its worker, the handlers of its buttons and
\* shutdown()
NextWorker ==
    \/ WorkerMain
    \/ WorkerWake
    \/ WorkerRampEnter
    \/ WorkerRampCheck
    \/ WorkerRampStep
    \/ WorkerRampExit
    \/ \E b \in Buttons : Press(b)
    \/ QuenchOn
    \/ StateChangeSet
    \/ ShutdownSet
    \/ ShutdownSignal
    \/ ShutdownJoin

SpecWorker == InitWorker /\ [][NextWorker]_vars

\* the threads are scheduled: the worker goes on while it can take a step,
\* and join returns once the worker has ended
FairWorker == SpecWorker /\ WF_vars(WorkerStep) /\ WF_vars(ShutdownJoin)

\* the loops of the server and of the worker of a power supply, and the
\* shutdown signal
ListenerStep ==
    \/ \E p \in Ports, c \in Conns : ListenAccept(p, c)
    \/ \E p \in Ports : ListenAcquire(p)
    \/ \E p \in Ports : ListenCreate(p)
    \/ \E p \in Ports : ListenLookup(p)
    \/ \E p \in Ports : ListenStop(p)

CommStep ==
    \/ \E c \in Conns : CommRead(c)
    \/ \E c \in Conns : CommTimeout(c)
    \/ \E c \in Conns : CommSendDone(c)
    \/ \E c \in Conns : CommStop(c)

ExperimentStep == \E e \in Exps : ExperimentStop(e)

WorkerLoop ==
    \/ WorkerBegin(Exp("A", 1))
    \/ WorkerMain
    \/ WorkerWake

NextStop ==
    \/ \E c \in Conns, a \in Addresses, p \in Ports : Connect(c, a, p)
    \/ TearDown
    \/ ListenerStep
    \/ CommStep
    \/ ExperimentStep
    \/ WorkerLoop

SpecStop == InitStop /\ [][NextStop]_vars

\* every thread is scheduled
FairStop ==
    /\ SpecStop
    /\ WF_vars(ListenerStep)
    /\ WF_vars(CommStep)
    /\ WF_vars(ExperimentStep)
    /\ WF_vars(WorkerLoop)

NextErrors == \E line \in ErrLines : ErrProcess(line)
SpecErrors == InitErrors /\ [][NextErrors]_vars

NextHooks ==
    \/ \E p \in DOMAIN props : \E h \in Hooks : AddSetHook(p, h)
    \/ \E p \in DOMAIN props : \E query \in BOOLEAN : \E arg \in Args : PropertyCall(p, query, arg)
    \/ VoltQuery
SpecHooks == InitHooks /\ [][NextHooks]_vars

NextRegistry == \E p \in TestAddPatterns : Define(p)
SpecRegistry == InitRegistry /\ [][NextRegistry]_vars

\* the value resolvers
NextValues ==
    \/ \E b \in BoundsPairs \cup {NoBounds}, s \in BOOLEAN : Construct(b, s)
    \/ \E v \in ParseValues, a \in ResolverArgs :
           ResolveFloat(v, a.min_max, a.default, a.units)
    \/ \E v \in ParseValues : SetFloat(v)

SpecValues == InitValues /\ [][NextValues]_vars

\* the double properties of the AMI420
NextConfigure == \E p \in DblProperties, v \in ParseValues : Configure(p, v)

SpecConfigure == InitConfigure /\ [][NextConfigure]_vars

\* the server with a transport that fails
NextTransport ==
    \/ \E c \in Conns, p \in Ports : Connect(c, "A", p)
    \/ \E c \in Conns, sym \in Symbols : ClientSend(c, sym)
    \/ ListenerStep
    \/ \E c \in Conns, n \in 1..MaxSent : CommRecv(c, n)
    \/ \E c \in Conns : CommSend(c)
    \/ CommStep
    \/ \E i \in Insts : ExperimentPoll(i)
    \/ ExperimentStep
    \/ \E c \in Conns : CommError(c)
    \/ \E c \in Conns : CommSendError(c)

SpecTransport == InitTransport /\ [][NextTransport]_vars

\* the power supply and the queries of its state
NextState ==
    \/ WorkerStep
    \/ \E b \in Buttons : Press(b)
    \/ StateChangeSet
    \/ \E header \in StateHeaders : StateQuery(header)

SpecState == InitState /\ [][NextState]_vars

\* the units of the power supply
NextUnits ==
    \/ \E name \in {"field_units", "ramp_rate_units"}, v \in UnitValues :
           UnitsWrite(name, v)
    \/ \E v \in FieldValues : FieldWrite("field_target", v)
    \/ \E v \in RateValues : FieldWrite("field_rate", v)
    \/ \E header \in FieldHeaders : FieldQuery(header)

SpecUnits == InitUnits /\ [][NextUnits]_vars

NextMessage ==
    \/ SetUp
    \/ \E units \in Messages : PutMessage(units)
    \/ ProcessOne

SpecMessage == InitTree /\ [][NextMessage]_vars

NextKeys == \E tkn \in Mnemonics, ignore_case \in BOOLEAN : Derive(tkn, ignore_case)

SpecKeys == InitKeys /\ [][NextKeys]_vars

NextStream ==
    \/ Connect(1, "A", PORT_K)
    \/ \E sym \in StreamSymbols : StreamSend(1, sym)
    \/ ListenAccept(PORT_K, 1)
    \/ ListenAcquire(PORT_K)
    \/ ListenCreate(PORT_K)
    \/ ListenLookup(PORT_K)
    \/ CommRead(1)
    \/ \E n \in 1..MaxStream : CommRecv(1, n)
    \/ CommTimeout(1)
    \/ CommSendDone(1)

SpecStream == InitServer /\ [][NextStream]_vars

\* the worker and the handlers of :RAMP, :PAUSE and :ZERO; the worker thread
\* keeps running and a handler that has made its first write makes its second
NextRace ==
    \/ WorkerStep
    \/ \E b \in Buttons : Press(b)
    \/ StateChangeSet

SpecRace == InitWorker /\ [][NextRace]_vars
FairRace == SpecRace /\ WF_vars(WorkerStep) /\ WF_vars(StateChangeSet)

\* a receiver with the registrations of setUp and the :RAMP command of the
\* power supply, lines put on its input queue, and the polling loop that
\* calls process_messages
NextLines ==
    \/ SetUp
    \/ Register(Pattern(<<":","R","A","M","P">>, "writeonly", FALSE))
    \/ \E units \in SetMessages : PutMessage(units)
    \/ ProcessOne

SpecLines == InitTree /\ [][NextLines]_vars
FairLines == SpecLines /\ WF_vars(ProcessOne)

\* add_command calls that raise, before and after the registrations of
\* setUp, and program messages run on the tree they leave
NextFailed ==
    \/ SetUp
    \/ \E p \in FailPatterns : Register(p)
    \/ \E units \in Messages : PutMessage(units)
    \/ ProcessOne

SpecFailed == InitTree /\ [][NextFailed]_vars

\* the two-argument ramp commands under the units of the power supply
NextRamps ==
    \/ \E name \in {"field_units", "ramp_rate_units"}, v \in UnitValues :
           UnitsWrite(name, v)
    \/ \E fn \in {"set_field_ramp", "set_current_ramp"},
          a \in TargetValues, b \in RampRateValues : RampWrite(fn, a, b)

SpecRamps == InitUnits /\ [][NextRamps]_vars

====
